---------------------------- MODULE Spec2Model ----------------------------
(***************************************************************************)
(* A model of capnpc-rust/codegen.rs, the Cap'n Proto code generator       *)
(* plugin for Rust.  The generator is a batch program: main() builds the   *)
(* node index and the scope map and then, per requested file, emits a      *)
(* FormattedText tree that is rendered and written.  The emitting          *)
(* functions are pure; they are modelled as operators that build the same  *)
(* text the Rust code builds with format!, and each is exercised by a      *)
(* specification whose initial states draw its inputs from bounded sets.   *)
(*                                                                         *)
(* A function that can fail! returns a record whose field `fail` is TRUE.  *)
(***************************************************************************)
EXTENDS Integers, Sequences, FiniteSets, TLC

VARIABLES
    main_node_map,    \* main's node_map: node id -> schema Node
    main_scope_map,   \* main's scope_map: node id -> the segments of its path
    \* ---- one struct field under generate_node's per-field loop ----
    f_pc,        \* "start" | "generated" | "failed"
    f_field,     \* the schema Field being emitted
    f_doff,      \* discriminant_offset of the enclosing struct
    f_out,       \* what the loop body pushed for the field
    f_mem,       \* a StructBuilder/StructReader the generated code runs on
    f_ret,       \* what the last call of a generated accessor returned
    \* ---- one struct under generate_node's union step ----
    u_struct,    \* the Node::Struct being emitted
    u_out,       \* what generate_union returned for Reader and for Builder
    \* ---- the interfaces of a file under generate_node ----
    i_todo,      \* the interface nodes generate_node has still to reach
    i_out,       \* node id -> what the Interface arm pushed for it
    i_call,      \* the call a generated Client issued: [interface_id, method_id]
    i_ret,       \* what the generated ServerDispatch did with it
    \* ---- main ----
    d_pc,        \* where main is: "index" | "file" | "imports" | "populate" |
                 \* "generate" | "write" | "done" | "aborted" | "error"
    d_request,   \* the CodeGeneratorRequest read from stdin
    d_file,      \* ii of the loop over requested files (1-based)
    d_import,    \* jj of the loop over a file's imports (1-based)
    d_stack,     \* the frames of populate_scope_map, innermost last
    d_return,    \* where main continues when populate_scope_map returns
    d_text,      \* the text stringify returned for the current file
    d_files,     \* the output files opened so far: [path, text], in order
    \* ---- generate_node on one node ----
    n_pc,        \* "start" | "generated" | "failed"
    n_node,      \* the node generate_node is called on
    n_out,       \* the lines of the text generate_node returned
    \* ---- one call of a function that reads no state ----
    p_pc,        \* "none" | "call" | "returned"
    p_arg,       \* the arguments of the call
    p_ret        \* what the call returned

f_vars == <<f_pc, f_field, f_doff, f_out, f_mem, f_ret>>
u_vars == <<u_struct, u_out>>
i_vars == <<i_todo, i_out, i_call, i_ret>>
d_vars == <<d_pc, d_request, d_file, d_import, d_stack, d_return, d_text, d_files>>

n_vars == <<n_pc, n_node, n_out>>
p_vars == <<p_pc, p_arg, p_ret>>

vars == <<main_node_map, main_scope_map, f_vars, u_vars, i_vars, d_vars, n_vars, p_vars>>

(***************************************************************************)
(* Strings                                                                 *)
(***************************************************************************)

Uppers == "ABCDEFGHIJKLMNOPQRSTUVWXYZ"
Lowers == "abcdefghijklmnopqrstuvwxyz"
Digits == "0123456789"

RECURSIVE IndexOf(_, _)
\* position of the character c in s, 0 when absent
IndexOf(c, s) ==
    IF s = "" THEN 0
    ELSE IF Head(s) = c THEN 1
    ELSE LET r == IndexOf(c, Tail(s)) IN IF r = 0 THEN 0 ELSE r + 1

CharAt(s, i) == SubSeq(s, i, i)

is_uppercase(c) == IndexOf(c, Uppers) > 0
is_alphanumeric(c) ==
    IndexOf(c, Uppers) > 0 \/ IndexOf(c, Lowers) > 0 \/ IndexOf(c, Digits) > 0

to_lowercase(c) == IF is_uppercase(c) THEN CharAt(Lowers, IndexOf(c, Uppers)) ELSE c
to_uppercase(c) ==
    IF IndexOf(c, Lowers) > 0 THEN CharAt(Uppers, IndexOf(c, Lowers)) ELSE c

RECURSIVE connect(_, _)
\* Vec<String>::connect(sep)
connect(strs, sep) ==
    IF Len(strs) = 0 THEN ""
    ELSE IF Len(strs) = 1 THEN strs[1]
    ELSE connect(SubSeq(strs, 1, Len(strs) \div 2), sep) \o sep
         \o connect(SubSeq(strs, Len(strs) \div 2 + 1, Len(strs)), sep)

RECURSIVE from_char(_, _)
\* String::from_char(n, c)
from_char(n, c) == IF n = 0 THEN "" ELSE c \o from_char(n - 1, c)

RECURSIVE to_hex(_)
\* the {:x} formatting of an unsigned number
to_hex(n) ==
    LET d == CharAt("0123456789abcdef", (n % 16) + 1)
    IN  IF n < 16 THEN d ELSE to_hex(n \div 16) \o d

RECURSIVE camel_to_upper_case(_)
camel_to_upper_case(s) ==
    IF s = "" THEN [fail |-> FALSE, str |-> ""]
    ELSE LET c == Head(s) IN
         IF ~is_alphanumeric(c) THEN [fail |-> TRUE, str |-> ""]
         ELSE LET rest == camel_to_upper_case(Tail(s)) IN
              IF rest.fail THEN rest
              ELSE [fail |-> FALSE,
                    str  |-> (IF is_uppercase(c) THEN "_" ELSE "")
                             \o to_uppercase(c) \o rest.str]

RECURSIVE camel_to_snake_case(_)
\* (mutation of camel_to_snake_case) the '_' is pushed after the letter
camel_to_snake_case_underscore_after(s) ==
    IF s = "" THEN [fail |-> FALSE, str |-> ""]
    ELSE LET c == Head(s) IN
         IF ~is_alphanumeric(c) THEN [fail |-> TRUE, str |-> ""]
         ELSE LET rest == camel_to_snake_case(Tail(s)) IN
              IF rest.fail THEN rest
              ELSE [fail |-> FALSE,
                    str  |-> to_lowercase(c) \o (IF is_uppercase(c) THEN "_" ELSE "")
                             \o rest.str]

camel_to_snake_case(s) ==
    IF s = "" THEN [fail |-> FALSE, str |-> ""]
    ELSE LET c == Head(s) IN
         IF ~is_alphanumeric(c) THEN [fail |-> TRUE, str |-> ""]
         ELSE LET rest == camel_to_snake_case(Tail(s)) IN
              IF rest.fail THEN rest
              ELSE [fail |-> FALSE,
                    str  |-> (IF is_uppercase(c) THEN "_" ELSE "")
                             \o to_lowercase(c) \o rest.str]

\* (mutation of capitalize_first_letter) the first character is left as it is
capitalize_first_letter_unchanged(s) ==
    IF s = "" THEN [fail |-> TRUE, str |-> ""]
    ELSE [fail |-> FALSE, str |-> s]

\* fails (index out of bounds) on the empty string; no alphanumeric assertion
capitalize_first_letter(s) ==
    IF s = "" THEN [fail |-> TRUE, str |-> ""]
    ELSE [fail |-> FALSE, str |-> to_uppercase(Head(s)) \o Tail(s)]

(***************************************************************************)
(* FormattedText                                                           *)
(***************************************************************************)

Indent(ft)  == [tag |-> "Indent", ft |-> ft]
Branch(fts) == [tag |-> "Branch", fts |-> fts]
Line(s)     == [tag |-> "Line", s |-> s]
BlankLine   == [tag |-> "BlankLine"]

RECURSIVE to_lines(_, _)
RECURSIVE branch_lines(_, _)
to_lines(ft, indent) ==
    CASE ft.tag = "Indent"    -> to_lines(ft.ft, indent + 1)
      [] ft.tag = "Branch"    -> branch_lines(ft.fts, indent)
      [] ft.tag = "Line"      -> << from_char(indent * 2, " ") \o ft.s >>
      [] ft.tag = "BlankLine" -> << "" >>

\* the loop of the Branch arm: the lines of each subtree, in order
branch_lines(fts, indent) ==
    IF Len(fts) = 0 THEN << >>
    ELSE to_lines(Head(fts), indent) \o branch_lines(Tail(fts), indent)

stringify(ft) == connect(to_lines(ft, 0), "\n") \o "\n"

\* Vec<FormattedText>::contains(&line), by the derived PartialEq
contains(result, line) == \E i \in 1..Len(result) : result[i] = line

(***************************************************************************)
(* The schema (schema_capnp readers), as records                           *)
(***************************************************************************)

NO_DISCRIMINANT == 65535

PrimT(tag)        == [tag |-> tag]
ListT(elem)       == [tag |-> "List", elem |-> elem]
RefT(tag, typeId) == [tag |-> tag, typeId |-> typeId]

NumV(tag, v) == [tag |-> tag, num |-> v]
BoolV(b)     == [tag |-> "Bool", b |-> b]
TagV(tag)    == [tag |-> tag]

SlotField(name, dv, offset, type, default) ==
    [name |-> name, discriminantValue |-> dv, which |-> "Slot",
     offset |-> offset, type |-> type, defaultValue |-> default]
GroupField(name, dv, typeId) ==
    [name |-> name, discriminantValue |-> dv, which |-> "Group", typeId |-> typeId]

SignedTags   == {"Int8", "Int16", "Int32", "Int64"}
UnsignedTags == {"Uint8", "Uint16", "Uint32", "Uint64"}
FloatTags    == {"Float32", "Float64"}
NumericTags == {"Int8", "Int16", "Int32", "Int64", "Uint8", "Uint16", "Uint32",
                "Uint64", "Float32", "Float64"}

element_size_str(element_size) ==
    CASE element_size = "Empty"           -> "Void"
      [] element_size = "Bit"             -> "Bit"
      [] element_size = "Byte"            -> "Byte"
      [] element_size = "TwoBytes"        -> "TwoBytes"
      [] element_size = "FourBytes"       -> "FourBytes"
      [] element_size = "EightBytes"      -> "EightBytes"
      [] element_size = "Pointer"         -> "Pointer"
      [] element_size = "InlineComposite" -> "InlineComposite"

\* (mutation of element_size) a Bool takes a byte and a 16-bit integer four
element_size_wider(typ) ==
    CASE typ.tag = "Void"    -> "Empty"
      [] typ.tag = "Bool"    -> "Byte"
      [] typ.tag \in {"Int8", "Uint8"} -> "Byte"
      [] typ.tag \in {"Int16", "Uint16", "Int32", "Uint32", "Float32"} -> "FourBytes"
      [] typ.tag \in {"Int64", "Uint64", "Float64"} -> "EightBytes"

element_size(typ) ==
    CASE typ.tag = "Void"    -> "Empty"
      [] typ.tag = "Bool"    -> "Bit"
      [] typ.tag = "Int8"    -> "Byte"
      [] typ.tag = "Int16"   -> "TwoBytes"
      [] typ.tag = "Int32"   -> "FourBytes"
      [] typ.tag = "Int64"   -> "EightBytes"
      [] typ.tag = "Uint8"   -> "Byte"
      [] typ.tag = "Uint16"  -> "TwoBytes"
      [] typ.tag = "Uint32"  -> "FourBytes"
      [] typ.tag = "Uint64"  -> "EightBytes"
      [] typ.tag = "Float32" -> "FourBytes"
      [] typ.tag = "Float64" -> "EightBytes"
      [] OTHER               -> "fail"

prim_type_str(typ) ==
    CASE typ.tag = "Void"    -> "()"
      [] typ.tag = "Bool"    -> "bool"
      [] typ.tag = "Int8"    -> "i8"
      [] typ.tag = "Int16"   -> "i16"
      [] typ.tag = "Int32"   -> "i32"
      [] typ.tag = "Int64"   -> "i64"
      [] typ.tag = "Uint8"   -> "u8"
      [] typ.tag = "Uint16"  -> "u16"
      [] typ.tag = "Uint32"  -> "u32"
      [] typ.tag = "Uint64"  -> "u64"
      [] typ.tag = "Float32" -> "f32"
      [] typ.tag = "Float64" -> "f64"
      [] typ.tag = "Enum"    -> "u16"
      [] OTHER               -> "fail"

\* (mutation of prim_default) every default taken for the type's zero
prim_default_always_none(value) == [fail |-> FALSE, some |-> FALSE, str |-> ""]

\* Option<String>: [some |-> FALSE] is None; fail!() on a non-primitive value
prim_default(value) ==
    CASE value.tag = "Bool" ->
            IF value.b THEN [fail |-> FALSE, some |-> TRUE, str |-> "true"]
            ELSE [fail |-> FALSE, some |-> FALSE, str |-> ""]
      [] value.tag \in NumericTags ->
            IF value.num = 0 THEN [fail |-> FALSE, some |-> FALSE, str |-> ""]
            ELSE [fail |-> FALSE, some |-> TRUE,
                  str |-> ToString(value.num)
                          \o (IF value.tag \in {"Float32", "Float64"}
                              THEN prim_type_str(PrimT(value.tag)) ELSE "")]
      [] OTHER -> [fail |-> TRUE, some |-> FALSE, str |-> ""]

\* scope_map[id].connect("::"); indexing a missing key fails
the_mod_of(scope_map, id) ==
    IF id \in DOMAIN scope_map
    THEN [fail |-> FALSE, str |-> connect(scope_map[id], "::")]
    ELSE [fail |-> TRUE, str |-> ""]

Failed == [fail |-> TRUE]
Getter(ty, get) == [fail |-> FALSE, ty |-> ty, get |-> get]

\* getter_text's inner fn common_case
getter_common_case(typ, member, offset, default) ==
    LET interior ==
          IF default = 0
          THEN Line("self." \o member \o ".get_data_field::<" \o typ \o ">("
                    \o ToString(offset) \o ")")
          ELSE Line("self." \o member \o ".get_data_field_mask::<" \o typ \o ">("
                    \o ToString(offset) \o ", " \o ToString(default) \o typ \o ")")
    IN  Getter(typ, interior)

\* the List arm of getter_text
getter_text_list(scope_map, elem, member, module, offset, is_reader, type_param) ==
    LET ptr == "self." \o member \o ".get_pointer_field(" \o ToString(offset) \o ")"
        get_list(kind, size) ==
            Line(kind \o "::" \o module \o "::new(" \o ptr \o ".get_list(layout::"
                 \o size \o ", std::ptr::null()))")
    IN
    CASE elem.tag = "Struct" ->
            LET m == the_mod_of(scope_map, elem.typeId) IN
            IF m.fail THEN Failed
            ELSE Getter("struct_list::" \o module \o "<'a," \o m.str \o "::" \o module \o "<'a>>",
                   IF is_reader
                   THEN Line("struct_list::" \o module \o "::new(" \o ptr \o ".get_list("
                             \o m.str \o "::STRUCT_SIZE.preferred_list_encoding, std::ptr::null()))")
                   ELSE Line("struct_list::" \o module \o "::new(" \o ptr \o ".get_struct_list("
                             \o m.str \o "::STRUCT_SIZE, std::ptr::null()))"))
      [] elem.tag = "Enum" ->
            LET m == the_mod_of(scope_map, elem.typeId) IN
            IF m.fail THEN Failed
            ELSE Getter("enum_list::" \o module \o "<'a," \o m.str \o "::Reader>",
                        get_list("enum_list", "TwoBytes"))
      [] elem.tag = "List" ->
            IF type_param.fail THEN Failed
            ELSE Getter("list_list::" \o module \o "<'a," \o type_param.str \o ">",
                        get_list("list_list", "Pointer"))
      [] elem.tag = "Text" ->
            Getter("text_list::" \o module \o "<'a>", get_list("text_list", "Pointer"))
      [] elem.tag = "Data" ->
            Getter("data_list::" \o module \o "<'a>", get_list("data_list", "Pointer"))
      [] elem.tag = "Interface" -> Failed
      [] elem.tag = "AnyPointer" -> Failed
      [] OTHER ->
            Getter("primitive_list::" \o module \o "<'a," \o prim_type_str(elem) \o ">",
                   get_list("primitive_list", element_size_str(element_size(elem))))

RECURSIVE list_list_type_param(_, _, _, _)
list_list_type_param(scope_map, typ, is_reader, lifetime_name) ==
    LET module == IF is_reader THEN "Reader" ELSE "Builder" IN
    CASE typ.tag \in {"Void", "Bool"} \cup NumericTags ->
            [fail |-> FALSE,
             str |-> "primitive_list::" \o module \o "<" \o lifetime_name \o ", "
                     \o prim_type_str(typ) \o ">"]
      [] typ.tag = "Enum" ->
            LET m == the_mod_of(scope_map, typ.typeId) IN
            IF m.fail THEN m
            ELSE [fail |-> FALSE,
                  str |-> "enum_list::" \o module \o "<" \o lifetime_name \o ","
                          \o m.str \o "::Reader>"]
      [] typ.tag = "Text" ->
            [fail |-> FALSE, str |-> "text_list::" \o module \o "<" \o lifetime_name \o ">"]
      [] typ.tag = "Data" ->
            [fail |-> FALSE, str |-> "data_list::" \o module \o "<" \o lifetime_name \o ">"]
      [] typ.tag = "Struct" ->
            LET m == the_mod_of(scope_map, typ.typeId) IN
            IF m.fail THEN m
            ELSE [fail |-> FALSE,
                  str |-> "struct_list::" \o module \o "<" \o lifetime_name \o ", "
                          \o m.str \o "::" \o module \o "<" \o lifetime_name \o ">>"]
      [] typ.tag = "List" ->
            LET inner == list_list_type_param(scope_map, typ.elem, is_reader, lifetime_name) IN
            IF inner.fail THEN inner
            ELSE [fail |-> FALSE,
                  str |-> "list_list::" \o module \o "<" \o lifetime_name \o ", "
                          \o inner.str \o ">"]
      [] OTHER -> [fail |-> TRUE, str |-> ""]

getter_text(scope_map, field, is_reader) ==
    IF field.which = "Group" THEN
        LET m == the_mod_of(scope_map, field.typeId) IN
        IF m.fail THEN Failed
        ELSE IF is_reader
             THEN Getter(m.str \o "::Reader<'a>", Line("FromStructReader::new(self.reader)"))
             ELSE Getter(m.str \o "::Builder<'a>", Line("FromStructBuilder::new(self.builder)"))
    ELSE
        LET offset == field.offset
            member == IF is_reader THEN "reader" ELSE "builder"
            module == IF is_reader THEN "Reader" ELSE "Builder"
            module_with_var == IF is_reader THEN "Reader<'a>" ELSE "Builder<'a>"
            typ == field.type
            val == field.defaultValue
            ptr == "self." \o member \o ".get_pointer_field(" \o ToString(offset) \o ")"
        IN
        CASE typ.tag = "Void" /\ val.tag = "Void" -> Getter("()", Line("()"))
          [] typ.tag = "Bool" /\ val.tag = "Bool" ->
                IF val.b
                THEN Getter("bool", Line("self." \o member \o ".get_bool_field_mask("
                                         \o ToString(offset) \o ", true)"))
                ELSE Getter("bool", Line("self." \o member \o ".get_bool_field("
                                         \o ToString(offset) \o ")"))
          [] typ.tag \in NumericTags /\ val.tag = typ.tag ->
                getter_common_case(prim_type_str(typ), member, offset, val.num)
          [] typ.tag = "Text" ->
                Getter("text::" \o module_with_var, Line(ptr \o ".get_text(std::ptr::null(), 0)"))
          [] typ.tag = "Data" ->
                Getter("data::" \o module_with_var, Line(ptr \o ".get_data(std::ptr::null(), 0)"))
          [] typ.tag = "List" ->
                getter_text_list(scope_map, typ.elem, member, module, offset, is_reader,
                    IF typ.elem.tag = "List"
                    THEN list_list_type_param(scope_map, typ.elem.elem, is_reader, "'a")
                    ELSE [fail |-> FALSE, str |-> ""])
          [] typ.tag = "Enum" ->
                LET m == the_mod_of(scope_map, typ.typeId) IN
                IF m.fail THEN Failed
                ELSE Getter("Option<" \o m.str \o "::Reader>",
                            Branch(<< Line("FromPrimitive::from_u16(self." \o member
                                           \o ".get_data_field::<u16>(" \o ToString(offset) \o "))") >>))
          [] typ.tag = "Struct" ->
                LET m == the_mod_of(scope_map, typ.typeId)
                    middle_arg == IF is_reader THEN "" ELSE m.str \o "::STRUCT_SIZE," IN
                IF m.fail THEN Failed
                ELSE Getter(m.str \o "::" \o module_with_var,
                            Line("FromStruct" \o module \o "::new(" \o ptr \o ".get_struct("
                                 \o middle_arg \o " std::ptr::null()))"))
          [] typ.tag = "Interface" ->
                LET m == the_mod_of(scope_map, typ.typeId) IN
                IF m.fail THEN Failed
                ELSE Getter(m.str \o "::Client",
                            Line("FromClientHook::new(" \o ptr \o ".get_capability())"))
          [] typ.tag = "AnyPointer" ->
                Getter("any_pointer::" \o module \o "<'a>",
                       Line("any_pointer::" \o module \o "::new(" \o ptr \o ")"))
          [] OTHER -> Failed

None    == [some |-> FALSE, str |-> ""]
Some(s) == [some |-> TRUE, str |-> s]

(***************************************************************************)
(* A schema Node: [id, scopeId, nestedNodes, which, ...]; a Struct node    *)
(* adds isGroup, discriminantCount, discriminantOffset and fields.         *)
(***************************************************************************)

RECURSIVE zero_fields_of_group(_, _)
RECURSIVE zero_fields_loop(_, _, _, _)
zero_fields_of_group(node_map, node_id) ==
    IF node_id \notin DOMAIN node_map THEN [fail |-> TRUE, ft |-> BlankLine]
    ELSE IF node_map[node_id].which # "Struct" THEN [fail |-> TRUE, ft |-> BlankLine]
    ELSE LET st == node_map[node_id]
             result == IF st.discriminantCount # 0
                       THEN << Line("self.builder.set_data_field::<u16>("
                                    \o ToString(st.discriminantOffset) \o ", 0);") >>
                       ELSE << >>
         IN  zero_fields_loop(node_map, st.fields, 1, result)

\* (mutation of zero_fields_loop) a nested group's fields are not cleared
zero_fields_loop_skip_groups(node_map, fields, ii, result) ==
    IF ii > Len(fields) THEN [fail |-> FALSE, ft |-> Branch(result)]
    ELSE LET f == fields[ii] IN
         IF f.which = "Group" THEN zero_fields_loop(node_map, fields, ii + 1, result)
         ELSE IF f.type.tag = "Void" THEN zero_fields_loop(node_map, fields, ii + 1, result)
         ELSE LET line ==
                    CASE f.type.tag = "Bool" ->
                            Line("self.builder.set_bool_field(" \o ToString(f.offset) \o ", false);")
                      [] f.type.tag \in NumericTags \cup {"Enum"} ->
                            Line("self.builder.set_data_field::<" \o prim_type_str(f.type)
                                 \o ">(" \o ToString(f.offset) \o ", 0);")
                      [] OTHER ->
                            Line("self.builder.get_pointer_field(" \o ToString(f.offset)
                                 \o ").clear();")
              IN  zero_fields_loop(node_map, fields, ii + 1,
                      IF ~contains(result, line) THEN Append(result, line) ELSE result)

\* the loop over fields[ii..], `result` being the Vec built so far
zero_fields_loop(node_map, fields, ii, result) ==
    IF ii > Len(fields) THEN [fail |-> FALSE, ft |-> Branch(result)]
    ELSE LET f == fields[ii] IN
         IF f.which = "Group" THEN
             LET sub == zero_fields_of_group(node_map, f.typeId) IN
             IF sub.fail THEN sub
             ELSE zero_fields_loop(node_map, fields, ii + 1, Append(result, sub.ft))
         ELSE IF f.type.tag = "Void" THEN zero_fields_loop(node_map, fields, ii + 1, result)
         ELSE LET line ==
                    CASE f.type.tag = "Bool" ->
                            Line("self.builder.set_bool_field(" \o ToString(f.offset) \o ", false);")
                      [] f.type.tag \in NumericTags \cup {"Enum"} ->
                            Line("self.builder.set_data_field::<" \o prim_type_str(f.type)
                                 \o ">(" \o ToString(f.offset) \o ", 0);")
                      [] OTHER ->
                            Line("self.builder.get_pointer_field(" \o ToString(f.offset)
                                 \o ").clear();")
              IN  zero_fields_loop(node_map, fields, ii + 1,
                      IF ~contains(result, line) THEN Append(result, line) ELSE result)

\* generate_setter's inner fn common_case: the lines it pushes on setter_interior
setter_common_case(typ, offset, reg_field) ==
    LET d == prim_default(reg_field.defaultValue) IN
    IF d.fail THEN [fail |-> TRUE, lines |-> << >>]
    ELSE IF ~d.some
    THEN [fail |-> FALSE,
          lines |-> << Line("self.builder.set_data_field::<" \o typ \o ">("
                            \o ToString(offset) \o ", value);") >>]
    ELSE [fail |-> FALSE,
          lines |-> << Line("self.builder.set_data_field_mask::<" \o typ \o ">("
                            \o ToString(offset) \o ", value, " \o d.str \o ");") >>]

\* what one arm of generate_setter's match adds: lines pushed on the two
\* interiors, initter_params, setter_param, setter_lifetime_param and the
\* (maybe_reader_type, maybe_builder_type) pair
Arm(set, init, params, rt, bt) ==
    [fail |-> FALSE, set |-> set, init |-> init, params |-> params,
     setter_param |-> "value", lifetime |-> "", rt |-> rt, bt |-> bt]
ArmFailed == [fail |-> TRUE]

\* the List arm of generate_setter
setter_list_arm(scope_map, t1, offset) ==
    LET ptr == "self.builder.get_pointer_field(" \o ToString(offset) \o ")"
        set == << Line(ptr \o ".set_list(&value.reader)") >>
        params == << "size : uint" >>
    IN
    CASE t1.tag \in {"Void", "Bool"} \cup NumericTags ->
            LET type_str == prim_type_str(t1)
                size_str == element_size_str(element_size(t1)) IN
            Arm(set,
                << Line("primitive_list::Builder::<'a," \o type_str \o ">::new("),
                   Indent(Line(ptr \o ".init_list(layout::" \o size_str \o ",size)")),
                   Line(")") >>,
                params,
                Some("primitive_list::Reader<'a," \o type_str \o ">"),
                Some("primitive_list::Builder<'a," \o type_str \o ">"))
      [] t1.tag = "Enum" ->
            LET m == the_mod_of(scope_map, t1.typeId)
                type_str == m.str \o "::Reader" IN
            IF m.fail THEN ArmFailed
            ELSE Arm(set,
                << Line("enum_list::Builder::<'a, " \o type_str \o ">::new("),
                   Indent(Line(ptr \o ".init_list(layout::TwoBytes,size)")),
                   Line(")") >>,
                params,
                Some("enum_list::Reader<'a," \o type_str \o ">"),
                Some("enum_list::Builder<'a," \o type_str \o ">"))
      [] t1.tag = "Struct" ->
            LET m == the_mod_of(scope_map, t1.typeId) IN
            IF m.fail THEN ArmFailed
            ELSE Arm(set,
                << Line("struct_list::Builder::<'a, " \o m.str \o "::Builder<'a>>::new("),
                   Indent(Line(ptr \o ".init_struct_list(size, " \o m.str \o "::STRUCT_SIZE))")) >>,
                params,
                Some("struct_list::Reader<'a," \o m.str \o "::Reader<'a>>"),
                Some("struct_list::Builder<'a," \o m.str \o "::Builder<'a>>"))
      [] t1.tag = "Text" ->
            Arm(set,
                << Line("text_list::Builder::<'a>::new(" \o ptr \o ".init_list(layout::Pointer, size))") >>,
                params, Some("text_list::Reader"), Some("text_list::Builder<'a>"))
      [] t1.tag = "Data" ->
            Arm(set,
                << Line("data_list::Builder::<'a>::new(" \o ptr \o ".init_list(layout::Pointer, size))") >>,
                params, Some("data_list::Reader"), Some("data_list::Builder<'a>"))
      [] t1.tag = "List" ->
            LET type_param == list_list_type_param(scope_map, t1.elem, FALSE, "'a")
                reader_param == list_list_type_param(scope_map, t1.elem, TRUE, "'b") IN
            IF type_param.fail \/ reader_param.fail THEN ArmFailed
            ELSE [ Arm(set,
                     << Line("list_list::Builder::<'a," \o type_param.str \o ">::new(" \o ptr
                             \o ".init_list(layout::Pointer,size))") >>,
                     params,
                     Some("list_list::Reader<'b, " \o reader_param.str \o ">"),
                     Some("list_list::Builder<'a, " \o type_param.str \o ">"))
                   EXCEPT !.lifetime = "<'b>" ]
      [] OTHER -> ArmFailed

\* the match on field.which() of generate_setter
setter_arm(node_map, scope_map, field) ==
    IF field.which = "Group" THEN
        LET m == the_mod_of(scope_map, field.typeId)
            z == zero_fields_of_group(node_map, field.typeId) IN
        IF m.fail \/ z.fail THEN ArmFailed
        ELSE Arm(<< >>, << z.ft, Line("FromStructBuilder::new(self.builder)") >>, << >>,
                 None, Some(m.str \o "::Builder<'a>"))
    ELSE
        LET offset == field.offset
            typ == field.type
            ptr == "self.builder.get_pointer_field(" \o ToString(offset) \o ")"
        IN
        CASE typ.tag = "Void" ->
                [ Arm(<< >>, << >>, << >>, Some("()"), None) EXCEPT !.setter_param = "_value" ]
          [] typ.tag = "Bool" ->
                LET d == prim_default(field.defaultValue) IN
                IF d.fail THEN ArmFailed
                ELSE IF ~d.some
                THEN Arm(<< Line("self.builder.set_bool_field(" \o ToString(offset) \o ", value);") >>,
                         << >>, << >>, Some("bool"), None)
                ELSE Arm(<< Line("self.builder.set_bool_field_mask(" \o ToString(offset)
                                 \o ", value, " \o d.str \o ");") >>,
                         << >>, << >>, Some("bool"), None)
          [] typ.tag \in NumericTags ->
                LET c == setter_common_case(prim_type_str(typ), offset, field) IN
                IF c.fail THEN ArmFailed
                ELSE Arm(c.lines, << >>, << >>, Some(prim_type_str(typ)), None)
          [] typ.tag = "Text" ->
                Arm(<< Line(ptr \o ".set_text(value);") >>,
                    << Line(ptr \o ".init_text(size)") >>, << "size : uint" >>,
                    Some("text::Reader"), Some("text::Builder<'a>"))
          [] typ.tag = "Data" ->
                Arm(<< Line(ptr \o ".set_data(value);") >>,
                    << Line(ptr \o ".init_data(size)") >>, << "size : uint" >>,
                    Some("data::Reader"), Some("data::Builder<'a>"))
          [] typ.tag = "List" -> setter_list_arm(scope_map, typ.elem, offset)
          [] typ.tag = "Enum" ->
                LET m == the_mod_of(scope_map, typ.typeId) IN
                IF m.fail THEN ArmFailed
                ELSE Arm(<< Line("self.builder.set_data_field::<u16>(" \o ToString(offset)
                                 \o ", value as u16)") >>,
                         << >>, << >>, Some(m.str \o "::Reader"), None)
          [] typ.tag = "Struct" ->
                LET m == the_mod_of(scope_map, typ.typeId) IN
                IF m.fail THEN ArmFailed
                ELSE Arm(<< Line(ptr \o ".set_struct(&value.struct_reader())") >>,
                         << Line("FromStructBuilder::new(" \o ptr \o ".init_struct("
                                 \o m.str \o "::STRUCT_SIZE))") >>,
                         << >>, Some(m.str \o "::Reader"), Some(m.str \o "::Builder<'a>"))
          [] typ.tag = "Interface" ->
                LET m == the_mod_of(scope_map, typ.typeId) IN
                IF m.fail THEN ArmFailed
                ELSE Arm(<< Line(ptr \o ".set_capability(value.client.hook);") >>,
                         << >>, << >>, Some(m.str \o "::Client"), None)
          [] typ.tag = "AnyPointer" ->
                Arm(<< >>,
                    << Line("let result = any_pointer::Builder::new(" \o ptr \o ");"),
                       Line("result.clear();"),
                       Line("result") >>,
                    << >>, None, Some("any_pointer::Builder<'a>"))
          [] OTHER -> ArmFailed

\* the discriminant write that opens both interiors of a union member
discriminant_write(discriminant_offset, field) ==
    IF field.discriminantValue # NO_DISCRIMINANT
    THEN << Line("self.builder.set_data_field::<u16>(" \o ToString(discriminant_offset)
                 \o ", " \o ToString(field.discriminantValue) \o ");") >>
    ELSE << >>

\* (mutation of interior_vec) the discriminant write pushed after the payload
interior_vec_payload_first(first, pushed) == pushed \o first

\* the Vec a setter or initter body is built in: the discriminant write is
\* pushed before the match on field.which() pushes anything
interior_vec(first, pushed) == first \o pushed

\* generate_setter after its match: the two methods around the interiors
setter_methods(arm, first, styled_name) ==
    IF arm.fail THEN [fail |-> TRUE]
    ELSE
    LET setter_interior == interior_vec(first, arm.set)
        initter_interior == interior_vec(first, arm.init)
        setter ==
            IF arm.rt.some
            THEN << Line("#[inline]"),
                    Line("pub fn set_" \o styled_name \o arm.lifetime \o "(&self, "
                         \o arm.setter_param \o " : " \o arm.rt.str \o ") {"),
                    Indent(Branch(setter_interior)),
                    Line("}") >>
            ELSE << >>
        initter ==
            IF arm.bt.some
            THEN << Line("#[inline]"),
                    Line("pub fn init_" \o styled_name \o "(&self, "
                         \o connect(arm.params, ", ") \o ") -> " \o arm.bt.str \o " {"),
                    Indent(Branch(initter_interior)),
                    Line("}") >>
            ELSE << >>
    IN  [fail |-> FALSE,
         setter_interior |-> setter_interior,
         initter_interior |-> initter_interior,
         maybe_reader_type |-> arm.rt,
         maybe_builder_type |-> arm.bt,
         result |-> Branch(setter \o initter)]

generate_setter(node_map, scope_map, discriminant_offset, styled_name, field) ==
    setter_methods(setter_arm(node_map, scope_map, field),
                   discriminant_write(discriminant_offset, field), styled_name)

\* (mutation of generate_haser) the discriminant is not tested
generate_haser_no_guard(discriminant_offset, styled_name, field, is_reader) ==
    LET member == IF is_reader THEN "reader" ELSE "builder" IN
    IF field.which = "Group" THEN Branch(<< >>)
    ELSE IF field.type.tag \in {"Text", "Data", "List", "Struct", "AnyPointer"}
    THEN Branch(<< Line("pub fn has_" \o styled_name \o "(&self) -> bool {"),
                   Indent(Branch(<< Line("!self." \o member \o ".get_pointer_field("
                                         \o ToString(field.offset) \o ").is_null()") >>)),
                   Line("}") >>)
    ELSE Branch(<< >>)

generate_haser(discriminant_offset, styled_name, field, is_reader) ==
    LET member == IF is_reader THEN "reader" ELSE "builder"
        first ==
            IF field.discriminantValue # NO_DISCRIMINANT
            THEN << Line("if self." \o member \o ".get_data_field::<u16>("
                         \o ToString(discriminant_offset) \o ") != "
                         \o ToString(field.discriminantValue) \o " { return false; }") >>
            ELSE << >>
    IN
    IF field.which = "Group" THEN Branch(<< >>)
    ELSE IF field.type.tag \in {"Text", "Data", "List", "Struct", "AnyPointer"}
    THEN Branch(<< Line("pub fn has_" \o styled_name \o "(&self) -> bool {"),
                   Indent(Branch(Append(first,
                       Line("!self." \o member \o ".get_pointer_field("
                            \o ToString(field.offset) \o ").is_null()")))),
                   Line("}") >>)
    ELSE Branch(<< >>)

generate_pipeline_getter(scope_map, field) ==
    LET name == camel_to_snake_case(field.name)
        id == field.typeId
        m == the_mod_of(scope_map, id) IN
    IF field.which = "Group" THEN
        IF m.fail \/ name.fail THEN [fail |-> TRUE, ft |-> BlankLine]
        ELSE [fail |-> FALSE,
              ft |-> Branch(<< Line("pub fn get_" \o name.str \o "(&self) -> " \o m.str
                                    \o "::Pipeline {"),
                               Indent(Line("FromTypelessPipeline::new(self._typeless.noop())")),
                               Line("}") >>)]
    ELSE IF field.type.tag = "Struct" THEN
        LET ms == the_mod_of(scope_map, field.type.typeId) IN
        IF ms.fail \/ name.fail THEN [fail |-> TRUE, ft |-> BlankLine]
        ELSE [fail |-> FALSE,
              ft |-> Branch(<< Line("pub fn get_" \o name.str \o "(&self) -> " \o ms.str
                                    \o "::Pipeline {"),
                               Indent(Line("FromTypelessPipeline::new(self._typeless.get_pointer_field("
                                           \o ToString(field.offset) \o "))")),
                               Line("}") >>)]
    ELSE IF field.type.tag = "Interface" THEN
        LET mi == the_mod_of(scope_map, field.type.typeId) IN
        IF mi.fail \/ name.fail THEN [fail |-> TRUE, ft |-> BlankLine]
        ELSE [fail |-> FALSE,
              ft |-> Branch(<< Line("pub fn get_" \o name.str \o "(&self) -> " \o mi.str
                                    \o "::Client {"),
                               Indent(Line("FromClientHook::new(self._typeless.get_pointer_field("
                                           \o ToString(field.offset) \o ").as_cap())")),
                               Line("}") >>)]
    ELSE [fail |-> FALSE, ft |-> Branch(<< >>)]

\* one getter member of the Reader or the Builder impl
getter_member(styled_name, g) ==
    Branch(<< Line("#[inline]"),
              Line("pub fn get_" \o styled_name \o "(&self) -> " \o g.ty \o " {"),
              Indent(g.get),
              Line("}") >>)

\* (mutation of field_members) the getter is pushed on the Reader only
field_members_reader_getter_only(field, styled, g_r, g_b, pipe, set, has_r, has_b) ==
    LET is_union_field == field.discriminantValue # NO_DISCRIMINANT IN
    IF styled.fail THEN [fail |-> TRUE]
    ELSE IF ~is_union_field /\ (pipe.fail \/ g_r.fail \/ g_b.fail) THEN [fail |-> TRUE]
    ELSE IF set.fail THEN [fail |-> TRUE]
    ELSE [fail |-> FALSE,
          styled_name |-> styled.str,
          pipeline_impl_interior |-> IF is_union_field THEN << >> ELSE << pipe.ft >>,
          reader_members |->
              (IF is_union_field THEN << >> ELSE << getter_member(styled.str, g_r) >>)
              \o << has_r >>,
          builder_members |-> << set.result, has_b >>,
          union_fields |-> IF is_union_field THEN << field >> ELSE << >>,
          setter |-> set,
          haser_reader |-> has_r,
          haser_builder |-> has_b]

\* what the loop body pushes for one field, given what the functions it calls
\* returned
field_members(field, styled, g_r, g_b, pipe, set, has_r, has_b) ==
    LET is_union_field == field.discriminantValue # NO_DISCRIMINANT IN
    IF styled.fail THEN [fail |-> TRUE]
    ELSE IF ~is_union_field /\ (pipe.fail \/ g_r.fail \/ g_b.fail) THEN [fail |-> TRUE]
    ELSE IF set.fail THEN [fail |-> TRUE]
    ELSE [fail |-> FALSE,
          styled_name |-> styled.str,
          pipeline_impl_interior |-> IF is_union_field THEN << >> ELSE << pipe.ft >>,
          reader_members |->
              (IF is_union_field THEN << >> ELSE << getter_member(styled.str, g_r) >>)
              \o << has_r >>,
          builder_members |->
              (IF is_union_field THEN << >> ELSE << getter_member(styled.str, g_b) >>)
              \o << set.result, has_b >>,
          union_fields |-> IF is_union_field THEN << field >> ELSE << >>,
          setter |-> set,
          haser_reader |-> has_r,
          haser_builder |-> has_b]

\* the calls of the loop body once the field's name is styled
styled_field(node_map, scope_map, discriminant_offset, field, styled) ==
    field_members(field, styled,
        getter_text(scope_map, field, TRUE),
        getter_text(scope_map, field, FALSE),
        generate_pipeline_getter(scope_map, field),
        generate_setter(node_map, scope_map, discriminant_offset, styled.str, field),
        generate_haser(discriminant_offset, styled.str, field, TRUE),
        generate_haser(discriminant_offset, styled.str, field, FALSE))

\* the body of generate_node's loop over a struct's fields, for one field
generate_field(node_map, scope_map, discriminant_offset, field) ==
    styled_field(node_map, scope_map, discriminant_offset, field,
                 camel_to_snake_case(field.name))

generate_import_statements ==
    Branch(<< Line("use std;"),
              Line("use capnp::any_pointer;"),
              Line("use capnp::capability::{FromClientHook, FromTypelessPipeline};"),
              Line("use capnp::{text, data};"),
              Line("use capnp::layout;"),
              Line("use capnp::layout::{FromStructBuilder, FromStructReader, ToStructReader};"),
              Line("use capnp::{primitive_list, enum_list, struct_list, text_list, data_list, list_list};"),
              Line("use capnp::list::ToU16;") >>)

\* generate_union's Vecs before its loop
union_acc0 ==
    [fail |-> FALSE, getter_interior |-> << >>, enum_interior |-> << >>,
     ty_params |-> << >>, ty_args |-> << >>]

\* (mutation of union_arm) the arm is keyed by the slot's offset
union_arm_keyed_by_offset(field, enumerant_name, get) ==
    Branch(<< Line(ToString(IF field.which = "Slot" THEN field.offset ELSE 0) \o " => {"),
              Indent(Line("return std::option::Some(" \o enumerant_name \o "(")),
              Indent(Indent(get)),
              Indent(Line("));")),
              Line("}") >>)

\* the arm of which() that generate_union pushes on getter_interior for a field
union_arm(field, enumerant_name, get) ==
    Branch(<< Line(ToString(field.discriminantValue) \o " => {"),
              Indent(Line("return std::option::Some(" \o enumerant_name \o "(")),
              Indent(Indent(get)),
              Indent(Line("));")),
              Line("}") >>)

\* whether generate_union gives the variant of the field a type parameter
union_ty_param(field) ==
    IF field.which = "Group" THEN TRUE
    ELSE field.type.tag \in {"Text", "Data", "List", "Struct", "AnyPointer"}

\* one round of generate_union's loop: en is capitalize_first_letter(name),
\* g is getter_text(field)
union_step(acc, field, en, g) ==
    IF en.fail \/ g.fail THEN [acc EXCEPT !.fail = TRUE]
    ELSE LET ty1 == IF union_ty_param(field)
                    THEN "A" \o ToString(Len(acc.ty_params)) ELSE g.ty
         IN  [fail |-> FALSE,
              getter_interior |-> Append(acc.getter_interior, union_arm(field, en.str, g.get)),
              enum_interior |-> Append(acc.enum_interior, Line(en.str \o "(" \o ty1 \o "),")),
              ty_params |-> IF union_ty_param(field) THEN Append(acc.ty_params, ty1)
                            ELSE acc.ty_params,
              ty_args |-> IF union_ty_param(field) THEN Append(acc.ty_args, g.ty)
                          ELSE acc.ty_args]

RECURSIVE union_loop(_, _, _, _, _)
\* generate_union's loop over fields[i..]
union_loop(scope_map, fields, is_reader, i, acc) ==
    IF acc.fail \/ i > Len(fields) THEN acc
    ELSE union_loop(scope_map, fields, is_reader, i + 1,
                    union_step(acc, fields[i], capitalize_first_letter(fields[i].name),
                               getter_text(scope_map, fields[i], is_reader)))

\* what generate_union builds after its loop
union_result(acc, discriminant_offset, is_reader) ==
    IF acc.fail THEN [fail |-> TRUE]
    ELSE
    LET enum_name == "Which" \o (IF Len(acc.ty_params) > 0
                                 THEN "<'a," \o connect(acc.ty_params, ",") \o ">" ELSE "")
        getter_interior == Append(acc.getter_interior, Line("_ => return std::option::None"))
        interior == << Branch(<< Line("pub enum " \o enum_name \o " {"),
                                 Indent(Branch(acc.enum_interior)),
                                 Line("}") >>) >>
        result == IF is_reader THEN Branch(interior)
                  ELSE Branch(<< Line("pub mod Which {"),
                                 Indent(generate_import_statements),
                                 BlankLine,
                                 Indent(Branch(interior)),
                                 Line("}") >>)
        field_name == IF is_reader THEN "reader" ELSE "builder"
        concrete_type == "Which" \o (IF is_reader THEN "Reader" ELSE "Builder")
                         \o (IF Len(acc.ty_params) > 0 THEN "<'a>" ELSE "")
        typedef == Line("pub type " \o concrete_type \o " = Which"
                        \o (IF Len(acc.ty_args) > 0
                            THEN "<'a," \o connect(acc.ty_args, ",") \o ">" ELSE "")
                        \o ";")
        getter_result ==
            Branch(<< Line("#[inline]"),
                      Line("pub fn which(&self) -> std::option::Option<" \o concrete_type \o "> {"),
                      Indent(Branch(<<
                          Line("match self." \o field_name \o ".get_data_field::<u16>("
                               \o ToString(discriminant_offset) \o ") {"),
                          Indent(Branch(getter_interior)),
                          Line("}") >>)),
                      Line("}") >>)
    IN  [fail |-> FALSE, result |-> result, getter_result |-> getter_result,
         typedef |-> typedef]

generate_union(node_map, scope_map, discriminant_offset, fields, is_reader) ==
    union_result(union_loop(scope_map, fields, is_reader, 1, union_acc0),
                 discriminant_offset, is_reader)

\* generate_node's union_fields: the fields pushed by the per-field loop
union_fields_of(fields) ==
    SelectSeq(fields, LAMBDA f : f.discriminantValue # NO_DISCRIMINANT)

\* generate_node's union step on a struct: [emitted, reader, builder]
union_pair(r, b) ==
    IF r.fail \/ b.fail THEN [fail |-> TRUE]
    ELSE [fail |-> FALSE, emitted |-> TRUE, reader |-> r, builder |-> b]
generate_node_union(node_map, scope_map, st) ==
    IF st.discriminantCount > 0
    THEN union_pair(generate_union(node_map, scope_map, st.discriminantOffset,
                                   union_fields_of(st.fields), TRUE),
                    generate_union(node_map, scope_map, st.discriminantOffset,
                                   union_fields_of(st.fields), FALSE))
    ELSE [fail |-> FALSE, emitted |-> FALSE]

(***************************************************************************)
(* generate_node, Node::Interface arm. An Interface node adds methods, a   *)
(* sequence of [name, paramStructType, resultStructType], and extends, a   *)
(* sequence of node ids. nested_output is kept as the calls of             *)
(* generate_node the arm makes: [id, name] in the order made.              *)
(***************************************************************************)

MethodFailed == [fail |-> TRUE]

\* (mutation of method_struct_name) the struct of scope_id 0 is named and
\* generate_node is not called for it
method_struct_name_not_nested(node_map, scope_map, struct_id, name, suffix) ==
    IF struct_id \notin DOMAIN node_map THEN [fail |-> TRUE]
    ELSE IF node_map[struct_id].scopeId = 0
    THEN LET c == capitalize_first_letter(name) IN
         IF c.fail THEN [fail |-> TRUE]
         ELSE [fail |-> FALSE, name |-> c.str \o suffix, nested |-> << >>]
    ELSE IF struct_id \notin DOMAIN scope_map THEN [fail |-> TRUE]
    ELSE [fail |-> FALSE, name |-> connect(scope_map[struct_id], "::"), nested |-> << >>]

\* params_name / results_name of a method and the generate_node call made for it
method_struct_name(node_map, scope_map, struct_id, name, suffix) ==
    IF struct_id \notin DOMAIN node_map THEN [fail |-> TRUE]
    ELSE IF node_map[struct_id].scopeId = 0
    THEN LET c == capitalize_first_letter(name) IN
         IF c.fail THEN [fail |-> TRUE]
         ELSE [fail |-> FALSE, name |-> c.str \o suffix,
               nested |-> << [fail |-> FALSE, id |-> struct_id, name |-> c.str \o suffix] >>]
    ELSE IF struct_id \notin DOMAIN scope_map THEN [fail |-> TRUE]
    ELSE [fail |-> FALSE, name |-> connect(scope_map[struct_id], "::"), nested |-> << >>]

\* (mutation of method_dispatch_arm) the arm is keyed one past the position
method_dispatch_arm_off_by_one(ordinal, snake) ==
    Line(ToString(ordinal + 1) \o " => server." \o snake
         \o "(capability::internal_get_typed_context(context)),")

\* the arm of dispatch_call_internal pushed for the method at position ordinal
method_dispatch_arm(ordinal, snake) ==
    Line(ToString(ordinal) \o " => server." \o snake
         \o "(capability::internal_get_typed_context(context)),")

\* what one round of the loop over methods pushes; p and r are the params and
\* results names, snake and cap the two conversions of the method's name
method_pushes(node_id, ordinal, p, r, snake, cap) ==
    IF p.fail \/ r.fail \/ snake.fail \/ cap.fail THEN MethodFailed
    ELSE [fail |-> FALSE,
          nested |-> p.nested \o r.nested,
          dispatch_arm |-> method_dispatch_arm(ordinal, snake.str),
          mod_type |-> Line("pub type " \o cap.str
                            \o "Context<'a> = capability::CallContext<" \o p.name
                            \o "::Reader<'a>, " \o r.name \o "::Builder<'a>>;"),
          server_fn |-> Line("fn " \o snake.str \o "<'a>(&mut self, " \o cap.str
                             \o "Context<'a>);"),
          client |-> << Line("pub fn " \o snake.str \o "_request<'a>(&self) -> Request<"
                             \o p.name \o "::Builder<'a>," \o r.name \o "::Reader<'a>,"
                             \o r.name \o "::Pipeline> {"),
                        Indent(Line("self.client.new_call(0x" \o to_hex(node_id) \o ", "
                                    \o ToString(ordinal) \o ", None)")),
                        Line("}") >>]

interface_method(node_map, scope_map, node_id, ordinal, method) ==
    method_pushes(node_id, ordinal,
                  method_struct_name(node_map, scope_map, method.paramStructType,
                                     method.name, "Params"),
                  method_struct_name(node_map, scope_map, method.resultStructType,
                                     method.name, "Results"),
                  camel_to_snake_case(method.name),
                  capitalize_first_letter(method.name))

methods_acc0 ==
    [fail |-> FALSE, nested |-> << >>, dispatch_arms |-> << >>, mod_types |-> << >>,
     server_interior |-> << >>, client_impl_interior |-> << >>]

methods_push(acc, m) ==
    IF m.fail THEN [acc EXCEPT !.fail = TRUE]
    ELSE [fail |-> FALSE,
          nested |-> acc.nested \o m.nested,
          dispatch_arms |-> Append(acc.dispatch_arms, m.dispatch_arm),
          mod_types |-> Append(acc.mod_types, m.mod_type),
          server_interior |-> Append(acc.server_interior, m.server_fn),
          client_impl_interior |-> acc.client_impl_interior \o m.client]

RECURSIVE methods_loop(_, _, _, _, _, _)
\* the loop `for ordinal in range(0, methods.size())`, from position ordinal
methods_loop(node_map, scope_map, node_id, methods, ordinal, acc) ==
    IF acc.fail \/ ordinal >= Len(methods) THEN acc
    ELSE methods_loop(node_map, scope_map, node_id, methods, ordinal + 1,
                      methods_push(acc, interface_method(node_map, scope_map, node_id,
                                                         ordinal, methods[ordinal + 1])))

RECURSIVE extends_loop(_, _, _, _)
\* the loop over extends: base_dispatch_arms and base_traits
extends_loop(scope_map, extends, ii, acc) ==
    IF acc.fail \/ ii > Len(extends) THEN acc
    ELSE IF extends[ii] \notin DOMAIN scope_map THEN [acc EXCEPT !.fail = TRUE]
    ELSE extends_loop(scope_map, extends, ii + 1,
            [fail |-> FALSE,
             base_dispatch_arms |-> Append(acc.base_dispatch_arms,
                 Line("0x" \o to_hex(extends[ii]) \o " => "
                      \o connect(scope_map[extends[ii]], "::")
                      \o "::ServerDispatch::<T>::dispatch_call_internal(&mut *self.server, method_id, context),")),
             base_traits |-> Append(acc.base_traits,
                 connect(scope_map[extends[ii]], "::") \o "::Server")])

\* the impl of capability::Server for ServerDispatch<T>
dispatch_call_impl(node_id, base_dispatch_arms) ==
    Branch(<<
        Line("impl <T : Server> capability::Server for ServerDispatch<T> {"),
        Indent(Line("fn dispatch_call(&mut self, interface_id : u64, method_id : u16, context : capability::CallContext<any_pointer::Reader, any_pointer::Builder>) {")),
        Indent(Indent(Line("match interface_id {"))),
        Indent(Indent(Indent(
            Line("0x" \o to_hex(node_id)
                 \o " => ServerDispatch::<T>::dispatch_call_internal(&mut *self.server, method_id, context),")))),
        Indent(Indent(Indent(Branch(base_dispatch_arms)))),
        Indent(Indent(Indent(Line("_ => {}")))),
        Indent(Indent(Line("}"))),
        Indent(Line("}")),
        Line("}") >>)

\* (mutation of dispatch_call_internal_impl) the default arm fails
dispatch_call_internal_impl_default_fails(dispatch_arms) ==
    Branch(<<
        Line("impl <T : Server> ServerDispatch<T> {"),
        Indent(Line("pub fn dispatch_call_internal(server :&mut T, method_id : u16, context : capability::CallContext<any_pointer::Reader, any_pointer::Builder>) {")),
        Indent(Indent(Line("match method_id {"))),
        Indent(Indent(Indent(Branch(dispatch_arms)))),
        Indent(Indent(Indent(Line("_ => fail!(\"unknown method\")")))),
        Indent(Indent(Line("}"))),
        Indent(Line("}")),
        Line("}") >>)

\* the impl of ServerDispatch<T> holding dispatch_call_internal
dispatch_call_internal_impl(dispatch_arms) ==
    Branch(<<
        Line("impl <T : Server> ServerDispatch<T> {"),
        Indent(Line("pub fn dispatch_call_internal(server :&mut T, method_id : u16, context : capability::CallContext<any_pointer::Reader, any_pointer::Builder>) {")),
        Indent(Indent(Line("match method_id {"))),
        Indent(Indent(Indent(Branch(dispatch_arms)))),
        Indent(Indent(Indent(Line("_ => {}")))),
        Indent(Indent(Line("}"))),
        Indent(Line("}")),
        Line("}") >>)

\* what the Interface arm pushes on mod_interior that depends on the node
interface_pushes(node_id, m, b) ==
    IF m.fail \/ b.fail THEN [fail |-> TRUE]
    ELSE [fail |-> FALSE,
          nested |-> m.nested,
          mod_types |-> m.mod_types,
          client_impl |-> Branch(<< Line("impl Client {"),
                                    Indent(Branch(m.client_impl_interior)),
                                    Line("}") >>),
          server_trait |->
              Branch(<< Line("pub trait Server "
                             \o (IF Len(b.base_traits) > 0
                                 THEN ": " \o connect(b.base_traits, " + ") ELSE "")
                             \o " {"),
                        Indent(Branch(m.server_interior)),
                        Line("}") >>),
          dispatch_call |-> dispatch_call_impl(node_id, b.base_dispatch_arms),
          dispatch_call_internal |-> dispatch_call_internal_impl(m.dispatch_arms)]

generate_interface(node_map, scope_map, node_id) ==
    IF node_id \notin DOMAIN node_map \/ node_id \notin DOMAIN scope_map
    THEN [fail |-> TRUE]
    ELSE interface_pushes(node_id,
             methods_loop(node_map, scope_map, node_id, node_map[node_id].methods, 0,
                          methods_acc0),
             extends_loop(scope_map, node_map[node_id].extends, 1,
                          [fail |-> FALSE, base_dispatch_arms |-> << >>,
                           base_traits |-> << >>]))

(***************************************************************************)
(* generate_node. A node is [which, id, scopeId, nestedNodes, ...] with    *)
(* nestedNodes a sequence of [name, id]; an Enum node adds enumerants (a   *)
(* sequence of names), a Const node adds type and value.                   *)
(***************************************************************************)

NodeFailed == [fail |-> TRUE, ft |-> BlankLine]
NodeText(output) == [fail |-> FALSE, ft |-> Branch(output)]

\* the arguments of a call generate_node(.., id, scope_map[id].last().unwrap())
child_call(scope_map, id) ==
    IF id \notin DOMAIN scope_map THEN [fail |-> TRUE]
    ELSE IF Len(scope_map[id]) = 0 THEN [fail |-> TRUE]
    ELSE [fail |-> FALSE, id |-> id, name |-> scope_map[id][Len(scope_map[id])]]

nested_calls(scope_map, nested_nodes) ==
    [i \in 1..Len(nested_nodes) |-> child_call(scope_map, nested_nodes[i].id)]

struct_acc0 ==
    [fail |-> FALSE, pipeline_impl_interior |-> << >>, reader_members |-> << >>,
     builder_members |-> << >>, group_calls |-> << >>]

\* the pushes of one round of the loop over a struct's fields
struct_push(acc, scope_map, field, m) ==
    IF m.fail THEN [acc EXCEPT !.fail = TRUE]
    ELSE [fail |-> FALSE,
          pipeline_impl_interior |-> acc.pipeline_impl_interior \o m.pipeline_impl_interior,
          reader_members |-> acc.reader_members \o m.reader_members,
          builder_members |-> acc.builder_members \o m.builder_members,
          group_calls |-> IF field.which = "Group"
                          THEN Append(acc.group_calls, child_call(scope_map, field.typeId))
                          ELSE acc.group_calls]

RECURSIVE struct_fields_loop(_, _, _, _, _, _)
struct_fields_loop(node_map, scope_map, discriminant_offset, fields, ii, acc) ==
    IF acc.fail \/ ii > Len(fields) THEN acc
    ELSE struct_fields_loop(node_map, scope_map, discriminant_offset, fields, ii + 1,
            struct_push(acc, scope_map, fields[ii],
                        generate_field(node_map, scope_map, discriminant_offset, fields[ii])))

struct_preamble(st) ==
    << generate_import_statements, BlankLine >>
    \o (IF ~st.isGroup
        THEN << Line("pub static STRUCT_SIZE : layout::StructSize ="),
                Indent(Line("layout::StructSize { data : " \o ToString(st.dataWordCount)
                            \o ", pointers : " \o ToString(st.pointerCount)
                            \o ", preferred_list_encoding : layout::"
                            \o element_size_str(st.preferredListEncoding) \o "};")),
                BlankLine, BlankLine >>
        ELSE << >>)

builder_struct_size(st) ==
    IF st.isGroup THEN Branch(<< >>)
    ELSE Branch(<< Line("impl <'a> layout::HasStructSize for Builder<'a> {"),
                   Indent(Branch(<< Line("#[inline]"),
                                    Line("fn struct_size(_unused_self : Option<Builder>) -> layout::StructSize { STRUCT_SIZE }") >>)),
                   Line("}") >>)

struct_accessors(st, reader_members, builder_members, pipeline_impl_interior) ==
    << Branch(struct_preamble(st)),
       Line("pub struct Reader<'a> { reader : layout::StructReader<'a> }"),
       BlankLine,
       Line("impl <'a> layout::FromStructReader<'a> for Reader<'a> {"),
       Indent(Branch(<< Line("fn new(reader: layout::StructReader<'a>) -> Reader<'a> {"),
                        Indent(Line("Reader { reader : reader }")),
                        Line("}") >>)),
       Line("}"),
       BlankLine,
       Line("impl <'a> layout::ToStructReader<'a> for Reader<'a> {"),
       Indent(Line("fn struct_reader(&self) -> layout::StructReader<'a> { self.reader }")),
       Line("}"),
       BlankLine,
       Line("impl <'a> Reader<'a> {"),
       Indent(Branch(reader_members)),
       Line("}"),
       BlankLine,
       Line("pub struct Builder<'a> { builder : layout::StructBuilder<'a> }"),
       builder_struct_size(st),
       Line("impl <'a> layout::FromStructBuilder<'a> for Builder<'a> {"),
       Indent(Branch(<< Line("fn new(builder : layout::StructBuilder<'a>) -> Builder<'a> {"),
                        Indent(Line("Builder { builder : builder }")),
                        Line("}") >>)),
       Line("}"),
       Line("impl <'a> Builder<'a> {"),
       Indent(Branch(<< Line("pub fn as_reader(&self) -> Reader<'a> {"),
                        Indent(Line("FromStructReader::new(self.builder.as_reader())")),
                        Line("}") >>)),
       Indent(Branch(builder_members)),
       Line("}"),
       BlankLine,
       Line("pub struct Pipeline { _typeless : any_pointer::Pipeline }"),
       Line("impl FromTypelessPipeline for Pipeline {"),
       Indent(Branch(<< Line("fn new(typeless : any_pointer::Pipeline) -> Pipeline {"),
                        Indent(Line("Pipeline { _typeless : typeless }")),
                        Line("}") >>)),
       Line("}"),
       Line("impl Pipeline {"),
       Indent(Branch(pipeline_impl_interior)),
       Line("}") >>

\* the Struct arm once the loop over fields, the union and the nested nodes
\* are done
struct_text(node_name, st, acc, un, nested) ==
    IF acc.fail \/ un.fail \/ nested.fail THEN NodeFailed
    ELSE NodeText(<<
        BlankLine,
        Line("pub mod " \o node_name \o " {"),
        Indent(Branch(<<
            Branch(struct_accessors(st,
                acc.reader_members
                    \o (IF un.emitted THEN << un.reader.getter_result >> ELSE << >>),
                acc.builder_members
                    \o (IF un.emitted THEN << un.builder.getter_result >> ELSE << >>),
                acc.pipeline_impl_interior)),
            Branch(IF un.emitted
                   THEN << un.reader.result, un.reader.typedef, un.builder.typedef >>
                   ELSE << >>),
            Branch(nested.fts) >>)),
        Line("}") >>)

RECURSIVE enum_members(_, _)
\* (mutation of enum_members) the enumerants are numbered from 1
enum_members_from_one(enumerants, ii) ==
    IF ii >= Len(enumerants) THEN [fail |-> FALSE, members |-> << >>]
    ELSE LET c == capitalize_first_letter(enumerants[ii + 1])
             rest == enum_members(enumerants, ii + 1)
         IN  IF c.fail \/ rest.fail THEN [fail |-> TRUE, members |-> << >>]
             ELSE [fail |-> FALSE,
                   members |-> << Line(c.str \o " = " \o ToString(ii + 1) \o ",") >>
                               \o rest.members]

\* the loop over enumerants, from position ii (0-based)
enum_members(enumerants, ii) ==
    IF ii >= Len(enumerants) THEN [fail |-> FALSE, members |-> << >>]
    ELSE LET c == capitalize_first_letter(enumerants[ii + 1])
             rest == enum_members(enumerants, ii + 1)
         IN  IF c.fail \/ rest.fail THEN [fail |-> TRUE, members |-> << >>]
             ELSE [fail |-> FALSE,
                   members |-> << Line(c.str \o " = " \o ToString(ii) \o ",") >>
                               \o rest.members]

enum_text(name, m, nested) ==
    IF name.fail \/ m.fail \/ nested.fail THEN NodeFailed
    ELSE NodeText(<<
        BlankLine,
        Line("pub mod " \o name.name \o " {"),
        Indent(Line("use capnp::list::{ToU16};")),
        BlankLine,
        Indent(Branch(<< Line("#[repr(u16)]"),
                         Line("#[deriving(FromPrimitive)]"),
                         Line("#[deriving(PartialEq)]"),
                         Line("pub enum Reader {"),
                         Indent(Branch(m.members)),
                         Line("}") >>)),
        Indent(Branch(<< Line("impl ToU16 for Reader {"),
                         Indent(Line("#[inline]")),
                         Indent(Line("fn to_u16(self) -> u16 { self as u16 }")),
                         Line("}") >>)),
        Line("}") >>)

interface_mod_interior(pieces, nested_output) ==
    << Line("#![allow(unused_variable)]"),
       Line("use capnp::any_pointer;"),
       Line("use capnp::capability::{ClientHook, FromClientHook, FromServer, Request, ServerHook};"),
       Line("use capnp::capability;"),
       BlankLine >>
    \o pieces.mod_types
    \o << BlankLine,
          Line("pub struct Client{ pub client : capability::Client }"),
          Branch(<< Line("impl FromClientHook for Client {"),
                    Indent(Line("fn new(hook : Box<ClientHook+Send>) -> Client {")),
                    Indent(Indent(Line("Client { client : capability::Client::new(hook) }"))),
                    Indent(Line("}")),
                    Line("}") >>),
          Branch(<< Line("impl <T:ServerHook, U : Server + Send> FromServer<T,U> for Client {"),
                    Indent(Branch(<<
                        Line("fn new(_hook : Option<T>, server : Box<U>) -> Client {"),
                        Indent(Line("Client { client : ServerHook::new_client(None::<T>, box ServerDispatch { server : server})}")),
                        Line("}") >>)),
                    Line("}") >>),
          Branch(<< Line("impl Clone for Client {"),
                    Indent(Line("fn clone(&self) -> Client {")),
                    Indent(Indent(Line("Client { client : capability::Client::new(self.client.hook.copy()) }"))),
                    Indent(Line("}")),
                    Line("}") >>),
          pieces.client_impl,
          pieces.server_trait,
          Branch(<< Line("pub struct ServerDispatch<T> {"),
                    Indent(Line("pub server : Box<T>,")),
                    Line("}") >>),
          pieces.dispatch_call,
          pieces.dispatch_call_internal,
          Branch(<< Branch(nested_output) >>) >>

interface_text(name, pieces, nested) ==
    IF name.fail \/ pieces.fail \/ nested.fail THEN NodeFailed
    ELSE NodeText(<< BlankLine,
                     Line("pub mod " \o name.name \o " {"),
                     Indent(Branch(interface_mod_interior(pieces, nested.fts))),
                     Line("}") >>)

\* (mutation of const_typ_txt) a Const of type Text or Data gets a text
const_typ_txt_pointers_emitted(type, value) ==
    IF type.tag # value.tag THEN [fail |-> TRUE]
    ELSE CASE type.tag \in {"Void", "Text", "Data"} ->
                [fail |-> FALSE, typ |-> "()", txt |-> "()"]
           [] type.tag = "Bool" ->
                [fail |-> FALSE, typ |-> "bool", txt |-> IF value.b THEN "true" ELSE "false"]
           [] type.tag \in NumericTags ->
                [fail |-> FALSE, typ |-> prim_type_str(type), txt |-> ToString(value.num)]
           [] OTHER -> [fail |-> TRUE]

\* the (typ, txt) pair of a Const: fail!() on the pointer types and on a value
\* of another type than the constant's
const_typ_txt(type, value) ==
    IF type.tag # value.tag THEN [fail |-> TRUE]
    ELSE CASE type.tag = "Void" -> [fail |-> FALSE, typ |-> "()", txt |-> "()"]
           [] type.tag = "Bool" ->
                [fail |-> FALSE, typ |-> "bool", txt |-> IF value.b THEN "true" ELSE "false"]
           [] type.tag \in SignedTags \cup UnsignedTags ->
                [fail |-> FALSE, typ |-> prim_type_str(type), txt |-> ToString(value.num)]
           [] type.tag \in {"Float32", "Float64"} ->
                [fail |-> FALSE, typ |-> prim_type_str(type),
                 txt |-> ToString(value.num) \o prim_type_str(type)]
           [] OTHER -> [fail |-> TRUE]

const_text(name, styled_name, tt, nested) ==
    IF name.fail \/ styled_name.fail \/ tt.fail \/ nested.fail THEN NodeFailed
    ELSE NodeText(<< Line("pub static " \o styled_name.str \o " : " \o tt.typ \o " = "
                          \o tt.txt \o ";") >>)

\* the name a Const is styled from; the unwrap fails before camel_to_upper_case
const_styled_name(name) ==
    IF name.fail THEN [fail |-> TRUE, str |-> ""] ELSE camel_to_upper_case(name.name)

file_text(nested) == IF nested.fail THEN NodeFailed ELSE NodeText(<< Branch(nested.fts) >>)
other_text(nested) == IF nested.fail THEN NodeFailed ELSE NodeText(<< >>)

nodes_cons(head, rest) ==
    IF head.fail \/ rest.fail THEN [fail |-> TRUE, fts |-> << >>]
    ELSE [fail |-> FALSE, fts |-> << head.ft >> \o rest.fts]

\* (mutation of interface_calls) the structs of the methods are not generated
interface_calls_dropped(pieces) == << >>

\* the calls of generate_node for the scopeId == 0 structs of the methods
interface_calls(pieces) == IF pieces.fail THEN << >> ELSE pieces.nested

RECURSIVE generate_node(_, _, _, _)
RECURSIVE generate_nodes(_, _, _, _)
RECURSIVE struct_node(_, _, _, _, _, _)
RECURSIVE interface_node(_, _, _, _, _)
RECURSIVE node_output(_, _, _, _, _)

\* the calls of generate_node that fill nested_output, from the i-th on
generate_nodes(node_map, scope_map, calls, i) ==
    IF i > Len(calls) THEN [fail |-> FALSE, fts |-> << >>]
    ELSE IF calls[i].fail THEN [fail |-> TRUE, fts |-> << >>]
    ELSE nodes_cons(generate_node(node_map, scope_map, calls[i].id, calls[i].name),
                    generate_nodes(node_map, scope_map, calls, i + 1))

struct_node(node_map, scope_map, node, node_name, ncalls, acc) ==
    struct_text(node_name, node, acc, generate_node_union(node_map, scope_map, node),
                generate_nodes(node_map, scope_map,
                               ncalls \o (IF acc.fail THEN << >> ELSE acc.group_calls), 1))

interface_node(node_map, scope_map, node, ncalls, pieces) ==
    interface_text(child_call(scope_map, node.id), pieces,
                   generate_nodes(node_map, scope_map, ncalls \o interface_calls(pieces), 1))

\* the match on node_reader.which(), the loop over nested nodes being ncalls
node_output(node_map, scope_map, node, node_name, ncalls) ==
    CASE node.which = "File" ->
            file_text(generate_nodes(node_map, scope_map, ncalls, 1))
      [] node.which = "Struct" ->
            struct_node(node_map, scope_map, node, node_name, ncalls,
                        struct_fields_loop(node_map, scope_map, node.discriminantOffset,
                                           node.fields, 1, struct_acc0))
      [] node.which = "Enum" ->
            enum_text(child_call(scope_map, node.id), enum_members(node.enumerants, 0),
                      generate_nodes(node_map, scope_map, ncalls, 1))
      [] node.which = "Interface" ->
            interface_node(node_map, scope_map, node, ncalls,
                           generate_interface(node_map, scope_map, node.id))
      [] node.which = "Const" ->
            const_text(child_call(scope_map, node.id),
                       const_styled_name(child_call(scope_map, node.id)),
                       const_typ_txt(node.type, node.value),
                       generate_nodes(node_map, scope_map, ncalls, 1))
      [] OTHER -> other_text(generate_nodes(node_map, scope_map, ncalls, 1))

generate_node(node_map, scope_map, node_id, node_name) ==
    IF node_id \notin DOMAIN node_map THEN NodeFailed
    ELSE node_output(node_map, scope_map, node_map[node_id], node_name,
                     nested_calls(scope_map, node_map[node_id].nestedNodes))

(***************************************************************************)
(* populate_scope_map, one frame per call: [node_id, scope_names, entered, *)
(* ii, jj], ii and jj being the positions of its two loops.                *)
(***************************************************************************)

Frame(node_id, scope_names) ==
    [node_id |-> node_id, scope_names |-> scope_names, entered |-> FALSE, ii |-> 1, jj |-> 1]

\* (mutation of nested_scope_names) the child's name is not pushed
nested_scope_names_not_pushed(scope_names, name) == scope_names

\* scope_names.clone() with the child's name pushed
nested_scope_names(scope_names, name) == Append(scope_names, name)

\* the frame at position ii of the loop over nested nodes
nested_frame(frame, nested_nodes) ==
    Frame(nested_nodes[frame.ii].id,
          nested_scope_names(frame.scope_names, nested_nodes[frame.ii].name))

\* HashMap::insert
insert(map, key, value) == (key :> value) @@ map

(***************************************************************************)
(* main                                                                    *)
(***************************************************************************)

RECURSIVE LastIndexOf(_, _, _)
\* the last position <= i of character c in s, 0 if none
LastIndexOf(c, s, i) ==
    IF i = 0 THEN 0
    ELSE IF SubSeq(s, i, i) = c THEN i
    ELSE LastIndexOf(c, s, i - 1)

\* Path::filename_str: what follows the last '/'
filename_str(path) == SubSeq(path, LastIndexOf("/", path, Len(path)) + 1, Len(path))

\* Path::filestem_str: the filename up to its last '.', the whole filename when
\* it has no '.' or only a leading one; None for a path with no filename
filestem_str(path) ==
    LET name == filename_str(path)
        dot == LastIndexOf(".", name, Len(name))
    IN  IF name = "" \/ name = ".." THEN None
        ELSE IF dot <= 1 THEN Some(name)
        ELSE Some(SubSeq(name, 1, dot - 1))

RECURSIVE replace(_, _, _)
\* str::replace of one character by another
replace(s, from, to) ==
    IF s = "" THEN ""
    ELSE (IF SubSeq(s, 1, 1) = from THEN to ELSE SubSeq(s, 1, 1))
         \o replace(Tail(s), from, to)

\* format!("{}_capnp", path.filestem_str().unwrap().replace("-", "_"))
capnp_root_name(path) ==
    IF ~filestem_str(path).some THEN [fail |-> TRUE, str |-> ""]
    ELSE [fail |-> FALSE, str |-> replace(filestem_str(path).str, "-", "_") \o "_capnp"]

\* Path::set_filename
set_filename(path, name) == SubSeq(path, 1, LastIndexOf("/", path, Len(path))) \o name

RECURSIVE index_nodes(_, _, _)
\* the loop that fills node_map, from position ii
index_nodes(nodes, ii, map) ==
    IF ii > Len(nodes) THEN map
    ELSE index_nodes(nodes, ii + 1, insert(map, nodes[ii].id, nodes[ii]))

\* the text main writes for a file
file_lines(node) ==
    Branch(<< Line("#![allow(unused_imports)]"), Line("#![allow(dead_code)]"), node.ft >>)

(***************************************************************************)
(* The runtime the generated code is compiled against (capnp::layout):     *)
(* how it reads the call syntax the generator emits, and what the calls do *)
(* to a struct's data section and pointer section.                         *)
(***************************************************************************)

StartsWith(s, lit) == Len(s) >= Len(lit) /\ SubSeq(s, 1, Len(lit)) = lit
EndsWith(s, lit) ==
    Len(s) >= Len(lit) /\ SubSeq(s, Len(s) - Len(lit) + 1, Len(s)) = lit
DropLast(s, n) == SubSeq(s, 1, Len(s) - n)

RECURSIVE FindFrom(_, _, _)
\* first position >= i at which lit occurs in s, 0 when it does not
FindFrom(s, lit, i) ==
    IF i + Len(lit) - 1 > Len(s) THEN 0
    ELSE IF SubSeq(s, i, i + Len(lit) - 1) = lit THEN i
    ELSE FindFrom(s, lit, i + 1)

NoMatch == [ok |-> FALSE, caps |-> << >>]

RECURSIVE Scan(_, _)
\* s read as lits[1] hole lits[2] hole ... lits[n]: the text of the holes
Scan(s, lits) ==
    IF ~StartsWith(s, lits[1]) THEN NoMatch
    ELSE LET rest == SubSeq(s, Len(lits[1]) + 1, Len(s)) IN
         IF Len(lits) = 1
         THEN IF rest = "" THEN [ok |-> TRUE, caps |-> << >>] ELSE NoMatch
         ELSE IF Len(lits) = 2
         THEN \* the last hole runs to the closing text
              IF EndsWith(rest, lits[2])
              THEN [ok |-> TRUE, caps |-> << DropLast(rest, Len(lits[2])) >>]
              ELSE NoMatch
         ELSE LET j == FindFrom(rest, lits[2], 1) IN
              IF j = 0 THEN NoMatch
              ELSE LET sub == Scan(SubSeq(rest, j, Len(rest)), Tail(lits)) IN
                   IF sub.ok
                   THEN [ok |-> TRUE, caps |-> << SubSeq(rest, 1, j - 1) >> \o sub.caps]
                   ELSE NoMatch

RECURSIVE ParseNat(_, _)
\* the decimal digits of s after the value acc already read; -1 when s is no number
ParseNat(s, acc) ==
    IF s = "" THEN acc
    ELSE LET d == IndexOf(Head(s), Digits) IN
         IF d = 0 THEN -1 ELSE ParseNat(Tail(s), acc * 10 + (d - 1))

\* a Rust literal: true, false, or a decimal number with an optional sign and an
\* optional type suffix
ParseLiteral(s, suffix) ==
    LET t == IF suffix # "" /\ EndsWith(s, suffix) THEN DropLast(s, Len(suffix)) ELSE s IN
    IF t = "true" THEN 1
    ELSE IF t = "false" THEN 0
    ELSE IF StartsWith(t, "-") THEN 0 - ParseNat(Tail(t), 0)
    ELSE ParseNat(t, 0)

RECURSIVE xor(_, _)
\* bitwise exclusive or of two's complement integers (of any one width holding both)
xor(a, b) ==
    IF a \in {0, -1} /\ b \in {0, -1} THEN (IF a = b THEN 0 ELSE -1)
    ELSE 2 * xor(a \div 2, b \div 2) + (((a % 2) + (b % 2)) % 2)

\* a struct: the data cells written so far, each [ty, off, v], and the offsets
\* of the pointer fields that are not null
EmptyStruct == [data |-> {}, ptrs |-> {}]

\* get_data_field::<ty>(off) and get_bool_field(off): a cell never written is zero
rt_get_data_field(mem, ty, off) ==
    IF \E c \in mem.data : c.ty = ty /\ c.off = off
    THEN (CHOOSE c \in mem.data : c.ty = ty /\ c.off = off).v
    ELSE 0

\* set_data_field::<ty>(off, v) and set_bool_field(off, v)
rt_set_data_field(mem, ty, off, v) ==
    [mem EXCEPT !.data =
        {c \in @ : ~(c.ty = ty /\ c.off = off)} \cup {[ty |-> ty, off |-> off, v |-> v]}]

\* the argument of a generated call: the setter's parameter or a literal
rt_arg(arg, value) ==
    IF arg \in {"value", "value as u16"} THEN value ELSE ParseLiteral(arg, "")

\* one statement of a generated Builder method, run with parameter `value`
rt_exec(line, mem, value) ==
    LET stmt == IF EndsWith(line, ";") THEN DropLast(line, 1) ELSE line
        set  == Scan(stmt, << "self.builder.set_data_field::<", ">(", ", ", ")" >>)
        setm == Scan(stmt, << "self.builder.set_data_field_mask::<", ">(", ", ", ", ", ")" >>)
        setb == Scan(stmt, << "self.builder.set_bool_field(", ", ", ")" >>)
        setbm == Scan(stmt, << "self.builder.set_bool_field_mask(", ", ", ", ", ")" >>)
        ptr  == Scan(stmt, << "self.builder.get_pointer_field(", ").", "(", ")" >>)
    IN
    IF set.ok THEN
        rt_set_data_field(mem, set.caps[1], ParseLiteral(set.caps[2], ""),
                          rt_arg(set.caps[3], value))
    ELSE IF setm.ok THEN
        rt_set_data_field(mem, setm.caps[1], ParseLiteral(setm.caps[2], ""),
                          xor(rt_arg(setm.caps[3], value), ParseLiteral(setm.caps[4], "")))
    ELSE IF setb.ok THEN
        rt_set_data_field(mem, "bool", ParseLiteral(setb.caps[1], ""),
                          rt_arg(setb.caps[2], value))
    ELSE IF setbm.ok THEN
        rt_set_data_field(mem, "bool", ParseLiteral(setbm.caps[1], ""),
                          xor(rt_arg(setbm.caps[2], value), ParseLiteral(setbm.caps[3], "")))
    ELSE IF ptr.ok THEN
        LET off == ParseLiteral(ptr.caps[1], "") IN
        IF ptr.caps[2] = "clear" THEN [mem EXCEPT !.ptrs = @ \ {off}]
        ELSE [mem EXCEPT !.ptrs = @ \cup {off}]
    ELSE mem

RECURSIVE rt_run(_, _, _)
\* the statements of a method body, in order
rt_run(lines, mem, value) ==
    IF Len(lines) = 0 THEN mem
    ELSE rt_run(Tail(lines), rt_exec(Head(lines), mem, value), value)

RECURSIVE rt_eval(_, _)
\* the value of a generated data-field getter expression
rt_eval(expr, mem) ==
    LET get  == Scan(expr, << "self.", ".get_data_field::<", ">(", ")" >>)
        getm == Scan(expr, << "self.", ".get_data_field_mask::<", ">(", ", ", ")" >>)
        getb == Scan(expr, << "self.", ".get_bool_field(", ")" >>)
        getbm == Scan(expr, << "self.", ".get_bool_field_mask(", ", ", ")" >>)
    IN
    IF StartsWith(expr, "FromPrimitive::from_u16(") /\ EndsWith(expr, ")") THEN
        rt_eval(SubSeq(expr, Len("FromPrimitive::from_u16(") + 1, Len(expr) - 1), mem)
    ELSE IF get.ok THEN
        rt_get_data_field(mem, get.caps[2], ParseLiteral(get.caps[3], ""))
    ELSE IF getm.ok THEN
        xor(rt_get_data_field(mem, getm.caps[2], ParseLiteral(getm.caps[3], "")),
            ParseLiteral(getm.caps[4], getm.caps[2]))
    ELSE IF getb.ok THEN
        rt_get_data_field(mem, "bool", ParseLiteral(getb.caps[2], ""))
    ELSE IF getbm.ok THEN
        xor(rt_get_data_field(mem, "bool", ParseLiteral(getbm.caps[2], "")),
            ParseLiteral(getbm.caps[3], ""))
    ELSE 0

RECURSIVE rt_has(_, _)
\* the value a generated has_ body returns: an early `return false` or the
\* final expression
rt_has(lines, mem) ==
    LET guard == Scan(Head(lines), << "if self.", ".get_data_field::<u16>(", ") != ",
                                      " { return false; }" >>)
        final == Scan(Head(lines), << "!self.", ".get_pointer_field(", ").is_null()" >>)
    IN
    IF guard.ok THEN
        IF rt_get_data_field(mem, "u16", ParseLiteral(guard.caps[2], ""))
               # ParseLiteral(guard.caps[3], "")
        THEN FALSE
        ELSE rt_has(Tail(lines), mem)
    ELSE final.ok /\ ParseLiteral(final.caps[2], "") \in mem.ptrs

RECURSIVE Trim(_)
\* a line without its indentation
Trim(s) == IF s # "" /\ Head(s) = " " THEN Trim(Tail(s)) ELSE s

RECURSIVE LineFrom(_, _, _)
\* the first index >= i of a line of `lines` that is `text` once trimmed, 0 if none
LineFrom(lines, text, i) ==
    IF i > Len(lines) THEN 0
    ELSE IF Trim(lines[i]) = text THEN i
    ELSE LineFrom(lines, text, i + 1)

WhichNone == [some |-> FALSE]

\* the value of the arm whose pattern is at line i: the variant and its payload
rt_arm_value(lines, i) ==
    [some |-> TRUE,
     variant |-> Scan(Trim(lines[i + 1]), << "return std::option::Some(", "(" >>).caps[1],
     get |-> [j \in 1..(LineFrom(lines, "));", i + 2) - i - 2) |-> Trim(lines[i + 1 + j])]]

RECURSIVE rt_match(_, _, _)
\* a Rust match on integer patterns: the first arm at or after line i whose
\* pattern is d or the wildcard
rt_match(lines, i, d) ==
    IF i > Len(lines) THEN [some |-> FALSE, stuck |-> TRUE]
    ELSE IF Trim(lines[i]) = "_ => return std::option::None" THEN WhichNone
    ELSE IF EndsWith(lines[i], " => {")
    THEN IF ParseLiteral(DropLast(Trim(lines[i]), 5), "") = d
         THEN rt_arm_value(lines, i)
         ELSE rt_match(lines, LineFrom(lines, "));", i) + 2, d)
    ELSE [some |-> FALSE, stuck |-> TRUE]

\* the lines of a generated which(), run on a struct
rt_which_on(header, lines, mem) ==
    rt_match(lines, 4,
             rt_get_data_field(mem, header.caps[2], ParseLiteral(header.caps[3], "")))
rt_which(lines, mem) ==
    rt_which_on(Scan(Trim(lines[3]), << "match self.", ".get_data_field::<", ">(", ") {" >>),
                lines, mem)

RECURSIVE ParseHex(_, _)
\* the hexadecimal digits of s after the value acc already read
ParseHex(s, acc) ==
    IF s = "" THEN acc
    ELSE ParseHex(Tail(s), acc * 16 + (IndexOf(Head(s), "0123456789abcdef") - 1))

\* a Rust integer literal, decimal or 0x-prefixed
ParseInt(s) ==
    IF StartsWith(s, "0x") THEN ParseHex(SubSeq(s, 3, Len(s)), 0) ELSE ParseNat(s, 0)

\* the call that the generated <snake>_request of a Client issues
rt_new_call_at(lines, i) ==
    IF i = 0 THEN [sent |-> FALSE]
    ELSE [sent |-> TRUE,
          interface_id |-> ParseInt(Scan(Trim(lines[i + 1]),
                               << "self.client.new_call(", ", ", ", None)" >>).caps[1]),
          method_id |-> ParseInt(Scan(Trim(lines[i + 1]),
                               << "self.client.new_call(", ", ", ", None)" >>).caps[2])]

RECURSIVE RequestLine(_, _, _)
\* the index of the line that opens <snake>_request, 0 if there is none
RequestLine(lines, snake, i) ==
    IF i > Len(lines) THEN 0
    ELSE IF StartsWith(Trim(lines[i]), "pub fn " \o snake \o "_request<") THEN i
    ELSE RequestLine(lines, snake, i + 1)

rt_new_call(lines, snake) == rt_new_call_at(lines, RequestLine(lines, snake, 1))

NotServed == [call |-> "dispatch", served |-> FALSE]

RECURSIVE rt_dispatch_call_internal(_, _, _, _)
\* dispatch_call_internal of interface `iface`: the match on method_id, from line i
rt_dispatch_call_internal(lines, i, method_id, iface) ==
    IF i > Len(lines) \/ Trim(lines[i]) = "_ => {}" THEN NotServed
    ELSE LET arm == Scan(Trim(lines[i]),
                         << "", " => server.",
                            "(capability::internal_get_typed_context(context))," >>)
         IN  IF arm.ok /\ ParseInt(arm.caps[1]) = method_id
             THEN [call |-> "dispatch", served |-> TRUE, interface |-> iface,
                   method |-> arm.caps[2]]
             ELSE rt_dispatch_call_internal(lines, i + 1, method_id, iface)

\* the interface whose module path is the_mod
InterfaceOfMod(scope_map, the_mod) ==
    CHOOSE id \in DOMAIN scope_map : connect(scope_map[id], "::") = the_mod

RECURSIVE rt_dispatch_call(_, _, _, _, _, _)
\* dispatch_call of the ServerDispatch of interface `server`: the match on
\* interface_id, from line i; outs holds the generated code of every interface
rt_dispatch_call(outs, scope_map, server, lines, i, call) ==
    IF i > Len(lines) \/ Trim(lines[i]) = "_ => {}" THEN NotServed
    ELSE LET arm == Scan(Trim(lines[i]),
                         << "", " => ",
                            "ServerDispatch::<T>::dispatch_call_internal(&mut *self.server, method_id, context)," >>)
         IN  IF arm.ok /\ ParseInt(arm.caps[1]) = call.interface_id
             THEN IF arm.caps[2] = ""
                  THEN rt_dispatch_call_internal(
                           to_lines(outs[server].dispatch_call_internal, 0), 4,
                           call.method_id, server)
                  ELSE rt_dispatch_call_internal(
                           to_lines(outs[InterfaceOfMod(scope_map, DropLast(arm.caps[2], 2))]
                                        .dispatch_call_internal, 0), 4,
                           call.method_id,
                           InterfaceOfMod(scope_map, DropLast(arm.caps[2], 2)))
             ELSE rt_dispatch_call(outs, scope_map, server, lines, i + 1, call)

(***************************************************************************)
(* SpecField: generate_node's per-field loop body on one field of a        *)
(* struct, and the generated accessors run against a struct.               *)
(***************************************************************************)

MaxOffset == 1
MaxDisc == 1

Offsets == 0..MaxOffset
DiscValues == (0..MaxDisc) \cup {NO_DISCRIMINANT}


\* the defaults a schema may declare for a field of a numeric type
NumSamples(tag) ==
    IF tag \in SignedTags THEN {0, -1, 100}
    ELSE IF tag \in UnsignedTags THEN {0, 1, 200}
    ELSE {0, 1}

\* the node ids of the schema the fields refer to
FixtureIds ==
    [File |-> 1, Foo |-> 2, Color |-> 3, Svc |-> 4, Grp |-> 5, Inner |-> 6, Other |-> 7,
     Top |-> 171, Mid |-> 188, Base |-> 205, Auto |-> 300]
FileId == FixtureIds.File
FooId == FixtureIds.Foo
ColorId == FixtureIds.Color
SvcId == FixtureIds.Svc
GrpId == FixtureIds.Grp
InnerId == FixtureIds.Inner
OtherId == FixtureIds.Other

ElementTypes ==
    {PrimT("Void"), PrimT("Bool"), PrimT("Uint8"), PrimT("Int16"), PrimT("Uint32"),
     PrimT("Int64"), PrimT("Float32"), PrimT("Float64"), PrimT("Text"), PrimT("Data"),
     RefT("Enum", ColorId), RefT("Struct", FooId), RefT("Interface", SvcId),
     PrimT("AnyPointer"), ListT(PrimT("Uint8")), ListT(PrimT("Text"))}

\* (type, default) pairs of a slot
SlotTypes ==
    {<<PrimT("Void"), TagV("Void")>>}
    \cup {<<PrimT("Bool"), BoolV(b)>> : b \in BOOLEAN}
    \cup UNION {{<<PrimT(t), NumV(t, d)>> : d \in NumSamples(t)} : t \in NumericTags}
    \cup {<<RefT("Enum", ColorId), NumV("Enum", d)>> : d \in {0, 1, 2}}
    \cup {<<PrimT("Text"), TagV("Text")>>, <<PrimT("Data"), TagV("Data")>>,
          <<PrimT("AnyPointer"), TagV("AnyPointer")>>,
          <<RefT("Struct", FooId), TagV("Struct")>>,
          <<RefT("Interface", SvcId), TagV("Interface")>>}
    \cup {<<ListT(e), TagV("List")>> : e \in ElementTypes}

FieldNames == {"widgetCount"}

Fields ==
    {SlotField(n, dv, off, td[1], td[2]) :
        n \in FieldNames, dv \in DiscValues, off \in Offsets, td \in SlotTypes}
    \cup {GroupField(n, dv, GrpId) : n \in FieldNames, dv \in DiscValues}

\* a group node with the given fields
GroupNode(id, scopeId, dcount, doff, fields) ==
    [id |-> id, scopeId |-> scopeId, nestedNodes |-> << >>, which |-> "Struct",
     isGroup |-> TRUE, discriminantCount |-> dcount, discriminantOffset |-> doff,
     dataWordCount |-> 1, pointerCount |-> 1, preferredListEncoding |-> "InlineComposite",
     fields |-> fields]

FixtureNodeMap ==
    (GrpId :> GroupNode(GrpId, FooId, 0, 0,
                << SlotField("x", NO_DISCRIMINANT, 0, PrimT("Uint32"), NumV("Uint32", 0)) >>))

FixtureScopeMap ==
    (FooId :> << "::test_capnp", "Foo" >>)
    @@ (ColorId :> << "::test_capnp", "Color" >>)
    @@ (SvcId :> << "::test_capnp", "Svc" >>)
    @@ (GrpId :> << "::test_capnp", "Foo", "WidgetCount" >>)

IsSlot(field) == field.which = "Slot"
IsBoolOrInt(field) ==
    IsSlot(field) /\ field.type.tag \in {"Bool"} \cup SignedTags \cup UnsignedTags
IsEnum(field) == IsSlot(field) /\ field.type.tag = "Enum"
IsUnionMember(field) == field.discriminantValue # NO_DISCRIMINANT

\* the schema default of a data field, as the number its bit pattern is
DefaultOf(field) ==
    IF field.defaultValue.tag = "Bool" THEN (IF field.defaultValue.b THEN 1 ELSE 0)
    ELSE field.defaultValue.num

\* the values a caller may pass to the setter of a data field, or find on the wire
ValuesOf(field) ==
    IF field.type.tag = "Bool" THEN {0, 1}
    ELSE IF field.type.tag = "Enum" THEN {0, 1, 2}
    ELSE NumSamples(field.type.tag)

\* no struct is at the union step, no interface is to be generated
NoCall == p_pc = "none" /\ p_arg = << >> /\ p_ret = << >>
NoNode ==
    /\ n_pc = "none" /\ n_node = [which |-> "None"] /\ n_out = [fail |-> FALSE, lines |-> << >>]
    /\ NoCall
NoMain ==
    /\ NoNode
    /\ d_pc = "none" /\ d_request = [nodes |-> << >>, requestedFiles |-> << >>]
    /\ d_file = 0 /\ d_import = 0 /\ d_stack = << >> /\ d_return = "none"
    /\ d_text = "" /\ d_files = << >>
NoInterface ==
    /\ i_todo = << >> /\ i_out = << >> /\ i_call = [sent |-> FALSE]
    /\ i_ret = [call |-> "none"] /\ NoMain
NoStruct ==
    u_struct = [which |-> "None"] /\ u_out = [fail |-> FALSE] /\ NoInterface

InitField ==
    /\ NoStruct
    /\ main_node_map = FixtureNodeMap
    /\ main_scope_map = FixtureScopeMap
    /\ f_pc = "start"
    /\ f_field \in Fields
    /\ f_doff \in Offsets
    \* the discriminant never shares its two bytes with a member of the union
    /\ ~(IsUnionMember(f_field) /\ IsSlot(f_field)
         /\ prim_type_str(f_field.type) = "u16" /\ f_field.offset = f_doff)
    /\ f_out = [fail |-> FALSE]
    /\ f_mem = EmptyStruct
    /\ f_ret = [call |-> "none"]

\* what is kept of the emission of one field: the loop body's pushes and the
\* getters, which for a member of the union generate_union asks getter_text for
FieldOutput(out, g_r, g_b) ==
    IF out.fail \/ g_r.fail \/ g_b.fail THEN [fail |-> TRUE]
    ELSE [fail |-> FALSE, field |-> out, getter_reader |-> g_r, getter_builder |-> g_b]

\* generate_node reaches the field
GenerateField ==
    /\ f_pc = "start"
    /\ f_out' = FieldOutput(generate_field(main_node_map, main_scope_map, f_doff, f_field),
                            getter_text(main_scope_map, f_field, TRUE),
                            getter_text(main_scope_map, f_field, FALSE))
    /\ f_pc' = IF f_out'.fail THEN "failed" ELSE "generated"
    /\ UNCHANGED <<p_vars, n_vars, d_vars, main_node_map, main_scope_map, u_vars, i_vars, f_field, f_doff, f_mem, f_ret>>

IsData(field) == IsBoolOrInt(field) \/ IsEnum(field)
IsPointer(field) ==
    IsSlot(field) /\ field.type.tag \in {"Text", "Data", "List", "Struct",
                                         "AnyPointer", "Interface"}

\* the runtime's name for the width of a data field
CellType(field) ==
    IF field.type.tag = "Bool" THEN "bool" ELSE prim_type_str(field.type)

\* a message arrives: the field's slot and the discriminant hold what the
\* sender wrote
ReceiveStruct ==
    /\ f_pc = "generated"
    /\ \E w \in (IF IsData(f_field) THEN ValuesOf(f_field) ELSE {0}),
          d \in (IF IsUnionMember(f_field) THEN 0..(MaxDisc + 1) ELSE {0}),
          p \in (IF IsPointer(f_field) THEN BOOLEAN ELSE {FALSE}) :
          /\ f_mem' = [data |-> (IF IsData(f_field)
                                 THEN {[ty |-> CellType(f_field), off |-> f_field.offset,
                                        v |-> w]}
                                 ELSE {})
                                \cup (IF IsUnionMember(f_field)
                                      THEN {[ty |-> "u16", off |-> f_doff, v |-> d]}
                                      ELSE {}),
                       ptrs |-> IF p THEN {f_field.offset} ELSE {}]
          /\ f_ret' = [call |-> "wire", arg |-> w]
    /\ UNCHANGED <<p_vars, n_vars, d_vars, main_node_map, main_scope_map, u_vars, i_vars, f_pc, f_field, f_doff, f_out>>

\* the emitted body of a method, as the lines of its interior
BodyLines(fts) == to_lines(Branch(fts), 0)

\* builder.set_<field>(v)
CallSetter ==
    /\ f_pc = "generated"
    /\ f_out.field.setter.maybe_reader_type.some
    /\ \E v \in (IF IsData(f_field) THEN ValuesOf(f_field) ELSE {0}) :
          /\ f_mem' = rt_run(BodyLines(f_out.field.setter.setter_interior), f_mem, v)
          /\ f_ret' = [call |-> "set", arg |-> v]
    /\ UNCHANGED <<p_vars, n_vars, d_vars, main_node_map, main_scope_map, u_vars, i_vars, f_pc, f_field, f_doff, f_out>>

\* reader.get_<field>(), or the payload of the field's arm of which()
CallGetter ==
    /\ f_pc = "generated"
    /\ IsData(f_field)
    /\ f_ret.call \in {"wire", "set"}
    /\ \E g \in {f_out.getter_reader, f_out.getter_builder} :
          f_ret' = [call |-> "get", after |-> f_ret.call, arg |-> f_ret.arg,
                    val |-> rt_eval(to_lines(g.get, 0)[1], f_mem)]
    /\ UNCHANGED <<p_vars, n_vars, d_vars, main_node_map, main_scope_map, u_vars, i_vars, f_pc, f_field, f_doff, f_out, f_mem>>

HaserLines(haser) ==
    LET ls == to_lines(haser, 0) IN
    [i \in 1..(Len(ls) - 2) |-> SubSeq(ls[i + 1], 3, Len(ls[i + 1]))]

\* reader.has_<field>() or builder.has_<field>()
CallHaser ==
    /\ f_pc = "generated"
    /\ \E h \in {f_out.field.haser_reader, f_out.field.haser_builder} :
          /\ Len(to_lines(h, 0)) > 0
          /\ f_ret' = [call |-> "has", val |-> rt_has(HaserLines(h), f_mem)]
    /\ UNCHANGED <<p_vars, n_vars, d_vars, main_node_map, main_scope_map, u_vars, i_vars, f_pc, f_field, f_doff, f_out, f_mem>>

NextField == GenerateField \/ ReceiveStruct \/ CallSetter \/ CallGetter \/ CallHaser

SpecField == InitField /\ [][NextField]_vars

(***************************************************************************)
(* Claims about the accessors of one field (SpecField)                     *)
(***************************************************************************)

Generated == f_pc = "generated"
Setter == f_out.field.setter
SetterEmitted == Setter.maybe_reader_type.some
InitterEmitted == Setter.maybe_builder_type.some

\* the statement that writes the field's discriminantValue as a u16 at the
\* struct's discriminantOffset
DiscriminantWriteStmt ==
    "self.builder.set_data_field::<u16>(" \o ToString(f_doff) \o ", "
        \o ToString(f_field.discriminantValue) \o ");"

\* C1: in the body of set_<field> and of init_<field>, whichever is emitted,
\* of a field that is a member of the union, the write of the discriminant is
\* the first statement
C1_DiscriminantWrittenFirst ==
    (Generated /\ IsUnionMember(f_field)) =>
        /\ SetterEmitted \/ InitterEmitted
        /\ SetterEmitted =>
              /\ Len(BodyLines(Setter.setter_interior)) >= 1
              /\ BodyLines(Setter.setter_interior)[1] = DiscriminantWriteStmt
        /\ InitterEmitted =>
              /\ Len(BodyLines(Setter.initter_interior)) >= 2
              /\ BodyLines(Setter.initter_interior)[1] = DiscriminantWriteStmt

\* a union member with a setter and an initter, each with a payload statement
C1_Witness ==
    /\ Generated /\ IsUnionMember(f_field)
    /\ SetterEmitted /\ InitterEmitted
    /\ Len(BodyLines(Setter.setter_interior)) >= 2
    /\ f_field.type.tag = "Text"

\* the text of a data-field read, unmasked and masked with the default d
UnmaskedRead(member, field) ==
    IF field.type.tag = "Bool"
    THEN "self." \o member \o ".get_bool_field(" \o ToString(field.offset) \o ")"
    ELSE "self." \o member \o ".get_data_field::<" \o prim_type_str(field.type) \o ">("
         \o ToString(field.offset) \o ")"
MaskedRead(member, field) ==
    IF field.type.tag = "Bool"
    THEN "self." \o member \o ".get_bool_field_mask(" \o ToString(field.offset) \o ", true)"
    ELSE "self." \o member \o ".get_data_field_mask::<" \o prim_type_str(field.type) \o ">("
         \o ToString(field.offset) \o ", " \o ToString(DefaultOf(field))
         \o prim_type_str(field.type) \o ")"

\* the read inside a getter expression (an enum's read is wrapped in from_u16)
ReadOf(get) ==
    LET expr == to_lines(get, 0)[1] IN
    IF StartsWith(expr, "FromPrimitive::from_u16(")
    THEN SubSeq(expr, Len("FromPrimitive::from_u16(") + 1, Len(expr) - 1)
    ELSE expr

\* C2 (as claimed): the Reader and Builder getters of a Bool, integer or enum
\* slot read unmasked when the default is zero and masked with the default
\* otherwise
C2_GetterMaskedIffNonzeroDefault ==
    (Generated /\ IsData(f_field)) =>
        /\ ReadOf(f_out.getter_reader.get) =
              IF DefaultOf(f_field) = 0 THEN UnmaskedRead("reader", f_field)
              ELSE MaskedRead("reader", f_field)
        /\ ReadOf(f_out.getter_builder.get) =
              IF DefaultOf(f_field) = 0 THEN UnmaskedRead("builder", f_field)
              ELSE MaskedRead("builder", f_field)

\* the claim of C2 for Bool and integer fields only
C2_BoolIntGetterMasked ==
    IsBoolOrInt(f_field) => C2_GetterMaskedIffNonzeroDefault

IsMasked(text) == FindFrom(text, "_mask", 1) > 0

\* the mask a masked read or write carries
MaskOfRead(expr, field) ==
    IF field.type.tag = "Bool"
    THEN ParseLiteral(Scan(expr, << "self.", ".get_bool_field_mask(", ", ", ")" >>).caps[3], "")
    ELSE ParseLiteral(Scan(expr, << "self.", ".get_data_field_mask::<", ">(", ", ", ")" >>).caps[4],
                      prim_type_str(field.type))
MaskOfWrite(stmt, field) ==
    IF field.type.tag = "Bool"
    THEN ParseLiteral(Scan(stmt, << "self.builder.set_bool_field_mask(", ", ", ", ", ");" >>).caps[3], "")
    ELSE ParseLiteral(Scan(stmt, << "self.builder.set_data_field_mask::<", ">(", ", ", ", ", ");" >>).caps[4], "")

PayloadWrite == BodyLines(Setter.setter_interior)[Len(BodyLines(Setter.setter_interior))]

\* C3: for a Bool or integer slot with default D the setter writes masked
\* exactly when the getter reads masked, both with D; a getter on wire value 0
\* returns D, on wire value D returns 0, and after set_<field>(v) returns v
C3_MaskedRoundTrip ==
    (Generated /\ IsBoolOrInt(f_field)) =>
        /\ \A g \in {f_out.getter_reader, f_out.getter_builder} :
              /\ IsMasked(PayloadWrite) <=> IsMasked(ReadOf(g.get))
              /\ IsMasked(PayloadWrite) =>
                    /\ MaskOfWrite(PayloadWrite, f_field) = DefaultOf(f_field)
                    /\ MaskOfRead(ReadOf(g.get), f_field) = DefaultOf(f_field)
        /\ (f_ret.call = "get" /\ f_ret.after = "wire" /\ f_ret.arg = 0) =>
              f_ret.val = DefaultOf(f_field)
        /\ (f_ret.call = "get" /\ f_ret.after = "wire" /\ f_ret.arg = DefaultOf(f_field)) =>
              f_ret.val = 0
        /\ (f_ret.call = "get" /\ f_ret.after = "set") => f_ret.val = f_ret.arg

\* a value other than zero read back through a field with a default other
\* than zero
C3_Witness ==
    /\ Generated /\ IsBoolOrInt(f_field)
    /\ DefaultOf(f_field) # 0
    /\ f_ret.call = "get" /\ f_ret.after = "set"
    /\ f_ret.arg \notin {0, DefaultOf(f_field)}
    /\ f_ret.val = f_ret.arg

HaserEmitted(h) == Len(to_lines(h, 0)) > 0

\* C7: has_<field> is emitted on Reader and Builder exactly for slots of type
\* Text, Data, List, Struct or AnyPointer; its body tests the discriminant
\* first (for a member of the union) and then the pointer, and so returns true
\* iff the discriminant matches and the pointer is not null
C7_Haser ==
    Generated =>
        /\ \A r \in BOOLEAN :
            LET h == IF r THEN f_out.field.haser_reader ELSE f_out.field.haser_builder
                member == IF r THEN "reader" ELSE "builder"
                body == HaserLines(h)
            IN  /\ HaserEmitted(h) <=>
                      (IsSlot(f_field)
                       /\ f_field.type.tag \in {"Text", "Data", "List", "Struct", "AnyPointer"})
                /\ HaserEmitted(h) =>
                      /\ to_lines(h, 0)[1] =
                            "pub fn has_" \o f_out.field.styled_name \o "(&self) -> bool {"
                      /\ Len(body) = IF IsUnionMember(f_field) THEN 2 ELSE 1
                      /\ IsUnionMember(f_field) =>
                            body[1] = "if self." \o member \o ".get_data_field::<u16>("
                                      \o ToString(f_doff) \o ") != "
                                      \o ToString(f_field.discriminantValue)
                                      \o " { return false; }"
                      /\ body[Len(body)] = "!self." \o member \o ".get_pointer_field("
                                           \o ToString(f_field.offset) \o ").is_null()"
        /\ f_ret.call = "has" =>
              f_ret.val = (/\ f_field.offset \in f_mem.ptrs
                           /\ IsUnionMember(f_field) =>
                                 rt_get_data_field(f_mem, "u16", f_doff)
                                     = f_field.discriminantValue)

\* has_ called on a union member whose pointer is set while another member is
\* the active one
C7_Witness ==
    /\ Generated /\ IsUnionMember(f_field)
    /\ f_ret.call = "has" /\ ~f_ret.val
    /\ f_field.offset \in f_mem.ptrs

(***************************************************************************)
(* SpecGroup: generate_node's per-field loop body on a group field, over   *)
(* a family of group nodes with nested and sibling groups, and the         *)
(* generated init_ method run against a struct.                            *)
(***************************************************************************)

\* (type, default) pairs of the slots inside the groups
GroupSlotTypes ==
    {<<PrimT("Void"), TagV("Void")>>, <<PrimT("Bool"), BoolV(FALSE)>>,
     <<PrimT("Uint16"), NumV("Uint16", 0)>>, <<RefT("Enum", ColorId), NumV("Enum", 0)>>,
     <<PrimT("Text"), TagV("Text")>>, <<RefT("Struct", FooId), TagV("Struct")>>}

SlotChoices == {<<td, off>> : td \in GroupSlotTypes, off \in Offsets}
MkSlot(name, dv, ch) == SlotField(name, dv, ch[2], ch[1][1], ch[1][2])

GroupShapes == {"flat", "nested", "nestedFirst", "siblings", "deep"}

\* the union of a group: none, or two members and the discriminant's offset
GroupUnions == {[dcount |-> 0, doff |-> 0]} \cup {[dcount |-> 2, doff |-> o] : o \in Offsets}

\* the discriminantValue of the n-th member of a group with union u
MemberDv(u, n) == IF u.dcount = 0 THEN NO_DISCRIMINANT ELSE n

NoUnion == [dcount |-> 0, doff |-> 0]

\* the nodes of a group Grp holding the slots a and c, laid out in one of the
\* shapes, the union u being Grp's own (in shape "deep": the nested group's)
GroupTree(shape, a, c, u) ==
    CASE shape = "flat" ->
            (GrpId :> GroupNode(GrpId, FooId, u.dcount, u.doff,
                         << MkSlot("a", MemberDv(u, 0), a), MkSlot("c", MemberDv(u, 1), c) >>))
      [] shape = "nested" ->
            (GrpId :> GroupNode(GrpId, FooId, u.dcount, u.doff,
                         << MkSlot("a", MemberDv(u, 0), a),
                            GroupField("inner", MemberDv(u, 1), InnerId) >>))
            @@ (InnerId :> GroupNode(InnerId, GrpId, 0, 0,
                             << MkSlot("c", NO_DISCRIMINANT, c) >>))
      [] shape = "nestedFirst" ->
            (GrpId :> GroupNode(GrpId, FooId, u.dcount, u.doff,
                         << GroupField("inner", MemberDv(u, 0), InnerId),
                            MkSlot("a", MemberDv(u, 1), a) >>))
            @@ (InnerId :> GroupNode(InnerId, GrpId, 0, 0,
                             << MkSlot("c", NO_DISCRIMINANT, c) >>))
      [] shape = "siblings" ->
            (GrpId :> GroupNode(GrpId, FooId, u.dcount, u.doff,
                         << GroupField("inner", MemberDv(u, 0), InnerId),
                            GroupField("other", MemberDv(u, 1), OtherId) >>))
            @@ (InnerId :> GroupNode(InnerId, GrpId, 0, 0,
                             << MkSlot("a", NO_DISCRIMINANT, a) >>))
            @@ (OtherId :> GroupNode(OtherId, GrpId, 0, 0,
                             << MkSlot("c", NO_DISCRIMINANT, c) >>))
      [] shape = "deep" ->
            (GrpId :> GroupNode(GrpId, FooId, 0, 0,
                         << GroupField("inner", NO_DISCRIMINANT, InnerId) >>))
            @@ (InnerId :> GroupNode(InnerId, GrpId, u.dcount, u.doff,
                             << MkSlot("a", MemberDv(u, 0), a),
                                GroupField("other", MemberDv(u, 1), OtherId) >>))
            @@ (OtherId :> GroupNode(OtherId, InnerId, 0, 0,
                             << MkSlot("c", NO_DISCRIMINANT, c) >>))

GroupScopeMap ==
    FixtureScopeMap
    @@ (InnerId :> << "::test_capnp", "Foo", "WidgetCount", "Inner" >>)
    @@ (OtherId :> << "::test_capnp", "Foo", "WidgetCount", "Other" >>)

\* the bits of the data section a slot choice occupies
BitsOf(ch) ==
    CASE ch[1][1].tag = "Bool" -> {ch[2]}
      [] ch[1][1].tag \in {"Uint16", "Enum"} -> (16 * ch[2])..(16 * ch[2] + 15)
      [] OTHER -> {}
PointerOf(ch) == IF ch[1][1].tag \in {"Text", "Struct"} THEN {ch[2]} ELSE {}

\* the schema compiler gives two slots the same place only when they are in
\* different members of a union, and never gives a slot a discriminant's place
Allocatable(a, c, u, doff) ==
    /\ u.dcount = 0 => (BitsOf(a) \cap BitsOf(c) = {} /\ PointerOf(a) \cap PointerOf(c) = {})
    /\ u.dcount # 0 =>
          /\ ((16 * u.doff)..(16 * u.doff + 15)) \cap (BitsOf(a) \cup BitsOf(c)) = {}
          /\ u.doff # doff
    /\ ((16 * doff)..(16 * doff + 15)) \cap (BitsOf(a) \cup BitsOf(c)) = {}

InitGroup ==
    /\ NoStruct
    /\ f_pc = "start"
    /\ f_doff = MaxOffset + 1
    /\ \E dv \in DiscValues : f_field = GroupField("widgetCount", dv, GrpId)
    /\ \E shape \in GroupShapes, a \in SlotChoices, c \in SlotChoices, u \in GroupUnions :
          /\ Allocatable(a, c, u, f_doff)
          /\ main_node_map = GroupTree(shape, a, c, u)
    /\ main_scope_map = GroupScopeMap
    /\ f_out = [fail |-> FALSE]
    /\ f_mem = EmptyStruct
    /\ f_ret = [call |-> "none"]

RECURSIVE GroupSlotsOf(_, _)
\* the slot fields of a group and of the groups nested in it
GroupSlotsOf(nodes, id) ==
    LET fields == nodes[id].fields IN
    UNION {IF fields[i].which = "Group" THEN GroupSlotsOf(nodes, fields[i].typeId)
           ELSE {fields[i]} : i \in 1..Len(fields)}

RECURSIVE GroupsOf(_, _)
\* a group and the groups nested in it
GroupsOf(nodes, id) ==
    LET fields == nodes[id].fields IN
    {id} \cup UNION {IF fields[i].which = "Group" THEN GroupsOf(nodes, fields[i].typeId)
                     ELSE {} : i \in 1..Len(fields)}

\* a struct in which every slot and discriminant of the group holds something
DirtyStruct(nodes, id) ==
    [data |-> {[ty |-> CellType(s), off |-> s.offset, v |-> 1] :
                  s \in {x \in GroupSlotsOf(nodes, id) : IsData(x)}}
              \cup {[ty |-> "u16", off |-> nodes[g].discriminantOffset, v |-> 1] :
                       g \in {x \in GroupsOf(nodes, id) : nodes[x].discriminantCount # 0}},
     ptrs |-> {s.offset : s \in {x \in GroupSlotsOf(nodes, id) : IsPointer(x)}}]

\* builder.init_<field>() on a struct whose group was in use
CallInitter ==
    /\ f_pc = "generated"
    /\ f_out.field.setter.maybe_builder_type.some
    /\ f_ret.call = "none"
    /\ f_mem' = rt_run(BodyLines(f_out.field.setter.initter_interior),
                       DirtyStruct(main_node_map, f_field.typeId), 0)
    /\ f_ret' = [call |-> "init"]
    /\ UNCHANGED <<p_vars, n_vars, d_vars, main_node_map, main_scope_map, u_vars, i_vars, f_pc, f_field, f_doff, f_out>>

NextGroup == GenerateField \/ CallInitter

SpecGroup == InitGroup /\ [][NextGroup]_vars

(***************************************************************************)
(* Claims about the init_ method of a group (SpecGroup)                    *)
(***************************************************************************)

\* the statement that clears a slot
ClearStmt(slot) ==
    CASE slot.type.tag = "Bool" ->
            "self.builder.set_bool_field(" \o ToString(slot.offset) \o ", false);"
      [] IsPointer(slot) ->
            "self.builder.get_pointer_field(" \o ToString(slot.offset) \o ").clear();"
      [] OTHER ->
            "self.builder.set_data_field::<" \o prim_type_str(slot.type) \o ">("
                \o ToString(slot.offset) \o ", 0);"

InitBody == BodyLines(Setter.initter_interior)

\* the statements of init_ that come before the returned builder expression
BeforeReturn == {InitBody[i] : i \in 1..(Len(InitBody) - 1)}

\* C4: the body of init_<group> holds, before the returned builder expression,
\* a statement clearing the group's own discriminant when its
\* discriminantCount is not zero, and one clearing every non-Void slot of the
\* group and of every group nested in it; run on a struct, it leaves those
\* slots zero and null
C4_InitClearsGroup ==
    (Generated /\ f_field.which = "Group") =>
        LET g == main_node_map[f_field.typeId] IN
        /\ InitterEmitted
        /\ InitBody[Len(InitBody)] = "FromStructBuilder::new(self.builder)"
        /\ g.discriminantCount # 0 =>
              ("self.builder.set_data_field::<u16>(" \o ToString(g.discriminantOffset)
                  \o ", 0);") \in BeforeReturn
        /\ \A s \in GroupSlotsOf(main_node_map, f_field.typeId) :
              s.type.tag # "Void" => ClearStmt(s) \in BeforeReturn
        /\ f_ret.call = "init" =>
              /\ \A s \in GroupSlotsOf(main_node_map, f_field.typeId) :
                    /\ IsData(s) => rt_get_data_field(f_mem, CellType(s), s.offset) = 0
                    /\ IsPointer(s) => s.offset \notin f_mem.ptrs
              /\ g.discriminantCount # 0 =>
                    rt_get_data_field(f_mem, "u16", g.discriminantOffset) = 0

\* init_ of a group with a union, a slot of its own and a slot in a nested
\* group, run on a struct where they were set
C4_Witness ==
    /\ Generated /\ f_field.which = "Group" /\ f_ret.call = "init"
    /\ main_node_map[GrpId].discriminantCount # 0
    /\ InnerId \in DOMAIN main_node_map
    /\ \E s \in GroupSlotsOf(main_node_map, InnerId) : IsPointer(s)
    /\ \E s \in GroupSlotsOf(main_node_map, GrpId) : IsData(s)

\* the clearing statements of init_: what zero_fields_of_group contributed
ClearingStmts ==
    SubSeq(InitBody, (IF IsUnionMember(f_field) THEN 2 ELSE 1), Len(InitBody) - 1)

\* C5 (as claimed): no clearing statement occurs twice in the body of init_,
\* whatever the nesting levels of the slots that share it
C5_NoDuplicateClearing ==
    (Generated /\ f_field.which = "Group") =>
        \A i, j \in 1..Len(ClearingStmts) :
            i # j => ClearingStmts[i] # ClearingStmts[j]

(***************************************************************************)
(* SpecUnion: generate_node's union step on a struct, and the generated    *)
(* which() run against a struct.                                           *)
(***************************************************************************)

MemberKinds == {"Void", "Bool", "Text", "Group"}
MemberNames == << "alpha", "betaTwo", "gammaRay", "delta", "epsilon" >>

\* a member of the union, of one of the kinds
MemberField(kind, name, dv) ==
    CASE kind = "Void" -> SlotField(name, dv, 0, PrimT("Void"), TagV("Void"))
      [] kind = "Bool" -> SlotField(name, dv, 16 * (MaxOffset + 1), PrimT("Bool"), BoolV(TRUE))
      [] kind = "Text" -> SlotField(name, dv, 0, PrimT("Text"), TagV("Text"))
      [] kind = "Group" -> GroupField(name, dv, GrpId)

\* the discriminant values of n members: any n different values
MemberDvs(n) ==
    {dvs \in [1..n -> 0..MaxDisc] : \A i, j \in 1..n : i # j => dvs[i] # dvs[j]}

\* a struct with one field outside the union and then the members
UnionStruct(doff, kinds, dvs) ==
    [which |-> "Struct", id |-> FooId, isGroup |-> FALSE,
     discriminantCount |-> Len(kinds), discriminantOffset |-> doff,
     fields |-> << SlotField("plain", NO_DISCRIMINANT, 0, PrimT("Uint32"), NumV("Uint32", 0)) >>
                \o [i \in 1..Len(kinds) |-> MemberField(kinds[i], MemberNames[i], dvs[i])]]

InitUnion ==
    /\ main_node_map = FixtureNodeMap
    /\ main_scope_map = FixtureScopeMap
    /\ f_pc = "start"
    /\ f_field = [which |-> "None"]
    /\ f_doff = 0
    /\ f_out = [fail |-> FALSE]
    /\ f_mem = EmptyStruct
    /\ f_ret = [call |-> "none"]
    /\ \E n \in 0..(MaxDisc + 1), doff \in Offsets :
          \E kinds \in [1..n -> MemberKinds], dvs \in MemberDvs(n) :
              u_struct = UnionStruct(doff, kinds, dvs)
    /\ u_out = [fail |-> FALSE]
    /\ NoInterface

\* generate_node reaches the union of the struct
GenerateUnion ==
    /\ f_pc = "start"
    /\ u_struct.which = "Struct"
    /\ u_out' = generate_node_union(main_node_map, main_scope_map, u_struct)
    /\ f_pc' = IF u_out'.fail THEN "failed" ELSE "generated"
    /\ UNCHANGED <<p_vars, n_vars, d_vars, main_node_map, main_scope_map, f_field, f_doff, f_out, f_mem, f_ret,
                   u_struct, i_vars>>

\* a message arrives: the discriminant holds what the sender wrote
ReceiveUnion ==
    /\ f_pc = "generated"
    /\ u_out.emitted
    /\ \E d \in 0..(MaxDisc + 1) :
          /\ f_mem' = [data |-> {[ty |-> "u16", off |-> u_struct.discriminantOffset,
                                  v |-> d]},
                       ptrs |-> {}]
          /\ f_ret' = [call |-> "wire", arg |-> d]
    /\ UNCHANGED <<p_vars, n_vars, d_vars, main_node_map, main_scope_map, f_pc, f_field, f_doff, f_out, u_vars,
                   i_vars>>

\* reader.which() or builder.which()
CallWhich ==
    /\ f_pc = "generated"
    /\ u_out.emitted
    /\ f_ret.call = "wire"
    /\ \E side \in {"reader", "builder"} :
          f_ret' = [call |-> "which", side |-> side, arg |-> f_ret.arg,
                    val |-> rt_which(to_lines(u_out[side].getter_result, 0), f_mem)]
    /\ UNCHANGED <<p_vars, n_vars, d_vars, main_node_map, main_scope_map, f_pc, f_field, f_doff, f_out, f_mem,
                   u_vars, i_vars>>

NextUnion == GenerateUnion \/ ReceiveUnion \/ CallWhich

SpecUnion == InitUnion /\ [][NextUnion]_vars

(***************************************************************************)
(* Claims about which() (SpecUnion)                                        *)
(***************************************************************************)

UnionMembers == union_fields_of(u_struct.fields)

RECURSIVE ArmKeysFrom(_, _)
\* the patterns of the arms of a match, in order, the wildcard left out
ArmKeysFrom(lines, i) ==
    IF i > Len(lines) THEN << >>
    ELSE IF EndsWith(lines[i], " => {")
    THEN << ParseLiteral(DropLast(Trim(lines[i]), 5), "") >> \o ArmKeysFrom(lines, i + 1)
    ELSE ArmKeysFrom(lines, i + 1)

\* what which() is to return when the discriminant is the member's
VariantOf(member, side) ==
    [some |-> TRUE,
     variant |-> to_uppercase(Head(member.name)) \o Tail(member.name),
     get |-> to_lines(getter_text(main_scope_map, member, side = "reader").get, 0)]

WhichLines(side) == to_lines(u_out[side].getter_result, 0)

\* C6: for a struct with discriminantCount > 0, which() of Reader and of
\* Builder reads the u16 at discriminantOffset, has exactly one arm per member
\* of the union, keyed by the member's discriminantValue and building the
\* variant named after the member from the member's getter expression, and
\* yields None for every other value
C6_Which ==
    (f_pc = "generated" /\ u_struct.which = "Struct" /\ u_struct.discriminantCount > 0) =>
        /\ u_out.emitted
        /\ \A side \in {"reader", "builder"} :
              /\ WhichLines(side)[3] =
                    "  match self." \o side \o ".get_data_field::<u16>("
                        \o ToString(u_struct.discriminantOffset) \o ") {"
              /\ ArmKeysFrom(WhichLines(side), 4) =
                    [i \in 1..Len(UnionMembers) |-> UnionMembers[i].discriminantValue]
              /\ \A i \in 1..Len(UnionMembers) :
                    rt_match(WhichLines(side), 4, UnionMembers[i].discriminantValue)
                        = VariantOf(UnionMembers[i], side)
              /\ \A d \in (0..(MaxDisc + 1)) \cup {NO_DISCRIMINANT} :
                    (\A i \in 1..Len(UnionMembers) : UnionMembers[i].discriminantValue # d)
                        => rt_match(WhichLines(side), 4, d) = WhichNone
        /\ f_ret.call = "which" =>
              IF \E i \in 1..Len(UnionMembers) : UnionMembers[i].discriminantValue = f_ret.arg
              THEN \E i \in 1..Len(UnionMembers) :
                      /\ UnionMembers[i].discriminantValue = f_ret.arg
                      /\ f_ret.val = VariantOf(UnionMembers[i], f_ret.side)
              ELSE f_ret.val = WhichNone

\* which() on a struct whose active member is declared second and has the
\* smaller discriminantValue
C6_Witness ==
    /\ f_pc = "generated" /\ u_struct.which = "Struct"
    /\ f_ret.call = "which" /\ f_ret.val.some
    /\ Len(UnionMembers) >= 2
    /\ UnionMembers[2].discriminantValue = f_ret.arg
    /\ UnionMembers[2].discriminantValue < UnionMembers[1].discriminantValue
    /\ f_ret.val.variant = "BetaTwo"

(***************************************************************************)
(* SpecIface: generate_node on the interfaces of a file, one after the     *)
(* other, and a generated Client calling a generated ServerDispatch.       *)
(***************************************************************************)

MaxMethods == 2

TopId == FixtureIds.Top
MidId == FixtureIds.Mid
BaseId == FixtureIds.Base
AutoId == FixtureIds.Auto

MethodNames == << "ping", "getValue", "setX2", "close" >>

\* the methods lists of the interface Top: the first names, in any order
TopMethodNames ==
    UNION {{ms \in [1..n -> {MethodNames[i] : i \in 1..MaxMethods}] :
               \A i, j \in 1..n : i # j => ms[i] # ms[j]} : n \in 0..MaxMethods}

\* a method whose params and results are structs declared in the file
NamedMethod(name) == [name |-> name, paramStructType |-> FooId, resultStructType |-> FooId]
\* a method whose params and results structs the schema compiler made (scopeId 0)
AutoMethod(name, k) ==
    [name |-> name, paramStructType |-> AutoId + 2 * k, resultStructType |-> AutoId + 2 * k + 1]

InterfaceNode(id, methods, extends) ==
    [which |-> "Interface", id |-> id, scopeId |-> FileId, nestedNodes |-> << >>,
     methods |-> methods, extends |-> extends]
StructNode(id, scopeId) ==
    [which |-> "Struct", id |-> id, scopeId |-> scopeId, nestedNodes |-> << >>,
     isGroup |-> FALSE, discriminantCount |-> 0, discriminantOffset |-> 0,
     dataWordCount |-> 0, pointerCount |-> 0, preferredListEncoding |-> "Empty",
     fields |-> << >>]

\* what Top and Mid may extend
TopExtends == {<< >>, << MidId >>, << BaseId >>, << MidId, BaseId >>, << BaseId, MidId >>}
MidExtends == {<< >>, << BaseId >>}

InterfaceNodeMap(names, auto, topExt, midExt) ==
    (TopId :> InterfaceNode(TopId,
                  [k \in 1..Len(names) |-> IF auto THEN AutoMethod(names[k], k - 1)
                                           ELSE NamedMethod(names[k])],
                  topExt))
    @@ (MidId :> InterfaceNode(MidId, << NamedMethod("midOp"), NamedMethod("ping") >>, midExt))
    @@ (BaseId :> InterfaceNode(BaseId, << NamedMethod("baseOp") >>, << >>))
    @@ (FooId :> StructNode(FooId, FileId))
    @@ [id \in (IF auto THEN AutoId..(AutoId + 2 * Len(names) - 1) ELSE {}) |->
           StructNode(id, 0)]

InterfaceScopeMap ==
    (FileId :> << "::test_capnp" >>)
    @@ (FooId :> << "::test_capnp", "Foo" >>)
    @@ (TopId :> << "::test_capnp", "Top" >>)
    @@ (MidId :> << "::test_capnp", "Mid" >>)
    @@ (BaseId :> << "::test_capnp", "Base" >>)

InitIface ==
    /\ NoMain
    /\ f_pc = "start"
    /\ f_field = [which |-> "None"]
    /\ f_doff = 0
    /\ f_out = [fail |-> FALSE]
    /\ f_mem = EmptyStruct
    /\ f_ret = [call |-> "none"]
    /\ u_struct = [which |-> "None"]
    /\ u_out = [fail |-> FALSE]
    /\ \E names \in TopMethodNames, auto \in BOOLEAN, topExt \in TopExtends,
          midExt \in MidExtends :
          main_node_map = InterfaceNodeMap(names, auto, topExt, midExt)
    /\ main_scope_map = InterfaceScopeMap
    /\ i_todo = << TopId, MidId, BaseId >>
    /\ i_out = << >>
    /\ i_call = [sent |-> FALSE]
    /\ i_ret = [call |-> "none"]

\* generate_node reaches the next interface of the file
GenerateInterface ==
    /\ f_pc = "start"
    /\ i_todo # << >>
    /\ i_out' = (Head(i_todo) :> generate_interface(main_node_map, main_scope_map,
                                                    Head(i_todo))) @@ i_out
    /\ i_todo' = Tail(i_todo)
    /\ f_pc' = IF i_out'[Head(i_todo)].fail THEN "failed"
               ELSE IF i_todo' = << >> THEN "generated" ELSE "start"
    /\ UNCHANGED <<p_vars, n_vars, d_vars, main_node_map, main_scope_map, f_field, f_doff, f_out, f_mem, f_ret,
                   u_vars, i_call, i_ret>>

RECURSIVE TransitiveBases(_, _)
\* the interfaces reached from id by following extends one or more times
TransitiveBases(nodes, id) ==
    LET direct == {nodes[id].extends[i] : i \in 1..Len(nodes[id].extends)} IN
    direct \cup UNION {TransitiveBases(nodes, b) : b \in direct}

\* a holder of the capability, seeing it as Top or as one of Top's bases,
\* builds a request with a generated <method>_request
CallRequest ==
    /\ f_pc = "generated"
    /\ \E x \in {TopId} \cup TransitiveBases(main_node_map, TopId) :
          \E k \in 1..Len(main_node_map[x].methods) :
              i_call' = rt_new_call(to_lines(i_out[x].client_impl, 0),
                                    camel_to_snake_case(main_node_map[x].methods[k].name).str)
                        @@ [via |-> x, position |-> k - 1]
    /\ i_ret' = [call |-> "request"]
    /\ UNCHANGED <<p_vars, n_vars, d_vars, main_node_map, main_scope_map, f_vars, u_vars, i_todo, i_out>>

\* a call not built by a generated Client
NoClient == TopId - TopId

\* a peer sends a call of its own making: any interface id, any method id
SendCall ==
    /\ f_pc = "generated"
    /\ \E x \in {TopId, MidId, BaseId, SvcId, OtherId}, k \in 0..MaxMethods :
          i_call' = [sent |-> TRUE, interface_id |-> x, method_id |-> k,
                     via |-> NoClient, position |-> k]
    /\ i_ret' = [call |-> "request"]
    /\ UNCHANGED <<p_vars, n_vars, d_vars, main_node_map, main_scope_map, f_vars, u_vars, i_todo, i_out>>

\* the call arrives at the ServerDispatch generated for Top
DispatchCall ==
    /\ f_pc = "generated"
    /\ i_call.sent
    /\ i_ret.call = "request"
    /\ i_ret' = rt_dispatch_call(i_out, main_scope_map, TopId,
                                 to_lines(i_out[TopId].dispatch_call, 0), 4, i_call)
    /\ UNCHANGED <<p_vars, n_vars, d_vars, main_node_map, main_scope_map, f_vars, u_vars, i_todo, i_out, i_call>>

NextIface == GenerateInterface \/ CallRequest \/ SendCall \/ DispatchCall

SpecIface == InitIface /\ [][NextIface]_vars

(***************************************************************************)
(* Claims about Client and ServerDispatch (SpecIface)                      *)
(***************************************************************************)

RECURSIVE DispatchKeysFrom(_, _)
\* the interface ids that the arms of a generated dispatch_call are keyed by
DispatchKeysFrom(lines, i) ==
    IF i > Len(lines) THEN << >>
    ELSE IF EndsWith(lines[i], "dispatch_call_internal(&mut *self.server, method_id, context),")
    THEN << ParseInt(Scan(Trim(lines[i]), << "", " => ", "," >>).caps[1]) >>
         \o DispatchKeysFrom(lines, i + 1)
    ELSE DispatchKeysFrom(lines, i + 1)

DispatchKeys(id) == DispatchKeysFrom(to_lines(i_out[id].dispatch_call, 0), 4)

InterfacesGenerated == f_pc = "generated" /\ i_todo = << >> /\ TopId \in DOMAIN i_out

\* C8 (as claimed): dispatch_call of an interface has an arm for every
\* interface reached by following extends one or more times, so a call
\* addressed to any of them reaches a server method
C8_ArmForEveryTransitiveBase ==
    InterfacesGenerated =>
        /\ \A id \in {TopId, MidId, BaseId} :
              \A b \in TransitiveBases(main_node_map, id) :
                  \E i \in 1..Len(DispatchKeys(id)) : DispatchKeys(id)[i] = b
        /\ (i_ret.call = "dispatch"
            /\ i_call.interface_id \in TransitiveBases(main_node_map, TopId)) => i_ret.served

\* the lines of the arms of a generated dispatch_call_internal
InternalArms(id) ==
    LET lines == to_lines(i_out[id].dispatch_call_internal, 0)
    IN  [j \in 1..(Len(lines) - 7) |-> Trim(lines[j + 3])]

\* C9: <m>_request of the Client of interface N, m at position k of methods,
\* issues new_call(N, k, None); dispatch_call routes N to the local
\* dispatch_call_internal, which routes k to the Server method named after m;
\* a request built by <m>_request is served by m, and no two positions share
\* an arm
C9_RequestReachesItsMethod ==
    InterfacesGenerated =>
        /\ \A id \in {TopId, MidId, BaseId} :
              LET methods == main_node_map[id].methods
                  client == to_lines(i_out[id].client_impl, 0)
              IN  /\ \A k \in 1..Len(methods) :
                        /\ client[3 * k] =
                              "    self.client.new_call(0x" \o to_hex(id) \o ", "
                                  \o ToString(k - 1) \o ", None)"
                        /\ StartsWith(client[3 * k - 1],
                              "  pub fn " \o camel_to_snake_case(methods[k].name).str
                                  \o "_request<'a>(&self)")
                        /\ InternalArms(id)[k] =
                              ToString(k - 1) \o " => server."
                                  \o camel_to_snake_case(methods[k].name).str
                                  \o "(capability::internal_get_typed_context(context)),"
                  /\ Len(InternalArms(id)) = Len(methods)
                  /\ Len(client) = 3 * Len(methods) + 2
                  /\ DispatchKeys(id)[1] = id
                  /\ Trim(to_lines(i_out[id].dispatch_call, 0)[4]) =
                        "0x" \o to_hex(id)
                            \o " => ServerDispatch::<T>::dispatch_call_internal(&mut *self.server, method_id, context),"
        /\ (i_ret.call \in {"request", "dispatch"} /\ i_call.via = TopId) =>
              /\ i_call.interface_id = TopId
              /\ i_call.method_id = i_call.position
        /\ (i_ret.call = "dispatch" /\ i_call.via = TopId) =>
              /\ i_ret.served
              /\ i_ret.interface = TopId
              /\ i_ret.method = camel_to_snake_case(
                                    main_node_map[TopId].methods[i_call.position + 1].name).str

\* a request built on the second method of Top is served by that method
C9_Witness ==
    /\ InterfacesGenerated
    /\ i_ret.call = "dispatch" /\ i_ret.served
    /\ i_call.via = TopId /\ i_call.position = 1
    /\ i_ret.method = "get_value"
    /\ main_node_map[TopId].extends # << >>

(***************************************************************************)
(* Spec: main on a CodeGeneratorRequest.                                   *)
(***************************************************************************)

MaxDepth == 5

LibNodeIds == [File |-> 10, Baz |-> 11, Qux |-> 12, QuxInner |-> 13, Limit |-> 14]
File2Id == LibNodeIds.File

FileNode(id, nested) ==
    [which |-> "File", id |-> id, scopeId |-> 0, nestedNodes |-> nested]
EnumNode(id, scopeId, enumerants) ==
    [which |-> "Enum", id |-> id, scopeId |-> scopeId, nestedNodes |-> << >>,
     enumerants |-> enumerants]

\* the struct Foo of the first file: a nested enum and a group, each optional
FooNode(hasInner, hasGroup) ==
    [StructNode(FooId, FileId) EXCEPT
        !.nestedNodes = IF hasInner THEN << [name |-> "Color", id |-> ColorId] >> ELSE << >>,
        !.dataWordCount = 1,
        !.fields = << SlotField("count", NO_DISCRIMINANT, 0, PrimT("Uint16"),
                                NumV("Uint16", 0)) >>
                   \o (IF hasInner
                       THEN << SlotField("color", NO_DISCRIMINANT, 1, RefT("Enum", ColorId),
                                         NumV("Enum", 0)) >>
                       ELSE << >>)
                   \o (IF hasGroup
                       THEN << GroupField("widgetCount", NO_DISCRIMINANT, GrpId) >>
                       ELSE << >>)]

\* Qux of the file lib, in which QuxInner is nested
QuxNode ==
    [StructNode(LibNodeIds.Qux, File2Id) EXCEPT
        !.nestedNodes = << [name |-> "QuxInner", id |-> LibNodeIds.QuxInner] >>]

ConstNode(id, scopeId, type, value) ==
    [which |-> "Const", id |-> id, scopeId |-> scopeId, nestedNodes |-> << >>,
     type |-> type, value |-> value]

\* what the struct Baz of the file lib may have besides: a list field "items",
\* or a constant "limit" nested in it
NoExtra == [which |-> "None"]
ExtraField(type) == [which |-> "Field", type |-> type]
ExtraConst(type, value) == [which |-> "Const", type |-> type, value |-> value]

ExtraFieldTypes ==
    {ListT(PrimT("AnyPointer")), ListT(RefT("Interface", TopId)),
     ListT(ListT(PrimT("AnyPointer"))), ListT(ListT(ListT(RefT("Interface", TopId)))),
     ListT(PrimT("Text")), ListT(ListT(PrimT("Uint8")))}

ExtraConsts ==
    {ExtraConst(PrimT(tag), TagV(tag)) : tag \in {"Text", "Data", "AnyPointer"}}
    \cup {ExtraConst(ListT(PrimT("Uint8")), TagV("List")),
          ExtraConst(RefT("Struct", LibNodeIds.QuxInner), TagV("Struct")),
          ExtraConst(RefT("Interface", TopId), TagV("Interface")),
          ExtraConst(PrimT("Uint16"), NumV("Uint16", 7)),
          ExtraConst(PrimT("Bool"), BoolV(TRUE))}

Extras == {NoExtra} \cup {ExtraField(t) : t \in ExtraFieldTypes} \cup ExtraConsts

BazNode(extra) ==
    [StructNode(LibNodeIds.Baz, File2Id) EXCEPT
        !.nestedNodes = IF extra.which = "Const"
                        THEN << [name |-> "limit", id |-> LibNodeIds.Limit] >>
                        ELSE << >>,
        !.pointerCount = IF extra.which = "Field" THEN 1 ELSE 0,
        !.fields = IF extra.which = "Field"
                   THEN << SlotField("items", NO_DISCRIMINANT, 0, extra.type, TagV("List")) >>
                   ELSE << >>]

\* the nodes of a request: the file test (Foo, Top) and the file lib (Baz, Qux),
\* Qux being at times left out of the nodes while QuxInner, nested in it, is not
RequestNodes(hasInner, hasGroup, hasQux, extra) ==
    << FileNode(FileId, << [name |-> "Foo", id |-> FooId], [name |-> "Top", id |-> TopId] >>),
       FooNode(hasInner, hasGroup),
       InterfaceNode(TopId, << AutoMethod("ping", 0) >>, << >>),
       StructNode(AutoId, 0), StructNode(AutoId + 1, 0),
       FileNode(File2Id, << [name |-> "Baz", id |-> LibNodeIds.Baz],
                            [name |-> "Qux", id |-> LibNodeIds.Qux] >>),
       BazNode(extra),
       StructNode(LibNodeIds.QuxInner, LibNodeIds.Qux) >>
    \o (IF extra.which = "Const"
        THEN << ConstNode(LibNodeIds.Limit, LibNodeIds.Baz, extra.type, extra.value) >>
        ELSE << >>)
    \o (IF hasInner THEN << EnumNode(ColorId, FooId, << "red", "green" >>) >> ELSE << >>)
    \o (IF hasGroup
        THEN << GroupNode(GrpId, FooId, 0, 0,
                    << SlotField("x", NO_DISCRIMINANT, 1, PrimT("Uint32"),
                                 NumV("Uint32", 0)),
                       GroupField("inner", NO_DISCRIMINANT, InnerId) >>),
                GroupNode(InnerId, GrpId, 0, 0,
                    << SlotField("y", NO_DISCRIMINANT, 3, PrimT("Uint16"),
                                 NumV("Uint16", 0)) >>) >>
        ELSE << >>)
    \o (IF hasQux THEN << QuxNode >> ELSE << >>)

TestFilenames == {"test.capnp", "dir/my-schema.capnp"}

RequestedFile(id, filename, imports) ==
    [id |-> id, filename |-> filename, imports |-> imports]

\* the requested files: test, lib or both, test importing lib or not
RequestedFiles(testName, testImportsLib) ==
    LET test == RequestedFile(FileId, testName,
                    IF testImportsLib THEN << [id |-> File2Id, name |-> "lib.capnp"] >>
                    ELSE << >>)
        lib == RequestedFile(File2Id, "lib.capnp", << >>)
    IN  {<< test >>, << lib >>, << test, lib >>, << lib, test >>}

Requests ==
    {[nodes |-> RequestNodes(hasInner, hasGroup, hasQux, extra), requestedFiles |-> files] :
        hasInner \in BOOLEAN, hasGroup \in BOOLEAN, hasQux \in BOOLEAN, extra \in Extras,
        files \in UNION {RequestedFiles(n, imp) : n \in TestFilenames, imp \in BOOLEAN}}

Init ==
    /\ main_node_map = << >>
    /\ main_scope_map = << >>
    /\ f_pc = "none"
    /\ f_field = [which |-> "None"]
    /\ f_doff = 0
    /\ f_out = [fail |-> FALSE]
    /\ f_mem = EmptyStruct
    /\ f_ret = [call |-> "none"]
    /\ u_struct = [which |-> "None"]
    /\ u_out = [fail |-> FALSE]
    /\ i_todo = << >> /\ i_out = << >> /\ i_call = [sent |-> FALSE]
    /\ i_ret = [call |-> "none"]
    /\ NoNode
    /\ d_pc = "index"
    /\ d_request \in Requests
    /\ d_file = 1
    /\ d_import = 1
    /\ d_stack = << >>
    /\ d_return = "none"
    /\ d_text = ""
    /\ d_files = << >>

OtherVars == <<f_vars, u_vars, i_vars, n_vars, p_vars>>

\* the loop over request.get_nodes()
IndexNodes ==
    /\ d_pc = "index"
    /\ main_node_map' = index_nodes(d_request.nodes, 1, main_node_map)
    /\ d_pc' = "file"
    /\ UNCHANGED <<OtherVars, main_scope_map, d_request, d_file, d_import, d_stack,
                   d_return, d_text, d_files>>

CurrentFile == d_request.requestedFiles[d_file]

\* the loop over requested files reaches a file
StartFile ==
    /\ d_pc = "file"
    /\ d_file <= Len(d_request.requestedFiles)
    /\ d_import' = 1
    /\ d_pc' = "imports"
    /\ UNCHANGED <<OtherVars, main_node_map, main_scope_map, d_request, d_file, d_stack,
                   d_return, d_text, d_files>>

\* the loop over requested files is over: Ok(())
Finish ==
    /\ d_pc = "file"
    /\ d_file > Len(d_request.requestedFiles)
    /\ d_pc' = "done"
    /\ UNCHANGED <<OtherVars, main_node_map, main_scope_map, d_request, d_file, d_import,
                   d_stack, d_return, d_text, d_files>>

\* the call of populate_scope_map with root name `root`, or the abort when the
\* path has no file stem
CallPopulate(root, prefix, id, return) ==
    IF root.fail
    THEN /\ d_pc' = "aborted"
         /\ UNCHANGED <<d_stack, d_return>>
    ELSE /\ d_stack' = << Frame(id, << prefix \o root.str >>) >>
         /\ d_return' = return
         /\ d_pc' = "populate"

\* the loop over the imports of the file reaches an import
PopulateImport ==
    /\ d_pc = "imports"
    /\ d_import <= Len(CurrentFile.imports)
    /\ CallPopulate(capnp_root_name(CurrentFile.imports[d_import].name), "::",
                    CurrentFile.imports[d_import].id, "imports")
    /\ d_import' = d_import + 1
    /\ UNCHANGED <<OtherVars, main_node_map, main_scope_map, d_request, d_file, d_text,
                   d_files>>

\* after the imports: root_mod is "::" and root_name
PopulateRoot ==
    /\ d_pc = "imports"
    /\ d_import > Len(CurrentFile.imports)
    /\ CallPopulate(capnp_root_name(CurrentFile.filename), "::", CurrentFile.id,
                    "generate")
    /\ UNCHANGED <<OtherVars, main_node_map, main_scope_map, d_request, d_file, d_import,
                   d_text, d_files>>

Top == d_stack[Len(d_stack)]
TopNode == main_node_map[Top.node_id]
Pop == SubSeq(d_stack, 1, Len(d_stack) - 1)
SetTop(frame) == [d_stack EXCEPT ![Len(d_stack)] = frame]
Returned(stack) == IF stack = << >> THEN d_return ELSE "populate"

\* (mutation of PopulateEnter) the lookup comes before the insert, so that an
\* id absent from node_map gets no entry
PopulateEnter_lookup_first ==
    /\ d_pc = "populate"
    /\ ~Top.entered
    /\ IF Top.node_id \in DOMAIN main_node_map
       THEN /\ main_scope_map' = insert(main_scope_map, Top.node_id, Top.scope_names)
            /\ d_stack' = SetTop([Top EXCEPT !.entered = TRUE]) /\ d_pc' = "populate"
       ELSE /\ main_scope_map' = main_scope_map
            /\ d_stack' = Pop /\ d_pc' = Returned(Pop)
    /\ UNCHANGED <<OtherVars, main_node_map, d_request, d_file, d_import, d_return,
                   d_text, d_files>>

\* populate_scope_map is entered: the insert, and the return when the node is
\* not in node_map
PopulateEnter ==
    /\ d_pc = "populate"
    /\ ~Top.entered
    /\ main_scope_map' = insert(main_scope_map, Top.node_id, Top.scope_names)
    /\ IF Top.node_id \in DOMAIN main_node_map
       THEN d_stack' = SetTop([Top EXCEPT !.entered = TRUE]) /\ d_pc' = "populate"
       ELSE d_stack' = Pop /\ d_pc' = Returned(Pop)
    /\ UNCHANGED <<OtherVars, main_node_map, d_request, d_file, d_import, d_return,
                   d_text, d_files>>

\* a call made with the stack full overflows it
Push(frame, advanced) ==
    IF Len(d_stack) >= MaxDepth
    THEN d_pc' = "aborted" /\ UNCHANGED d_stack
    ELSE d_pc' = "populate" /\ d_stack' = Append(SetTop(advanced), frame)

\* (mutation of PopulateNested) as if a set of visited ids were kept: a nested
\* node that has an entry already is not entered again
PopulateNested_visited_kept ==
    /\ d_pc = "populate"
    /\ Top.entered
    /\ Top.ii <= Len(TopNode.nestedNodes)
    /\ IF TopNode.nestedNodes[Top.ii].id \in DOMAIN main_scope_map
       THEN d_pc' = "populate" /\ d_stack' = SetTop([Top EXCEPT !.ii = @ + 1])
       ELSE Push(nested_frame(Top, TopNode.nestedNodes), [Top EXCEPT !.ii = @ + 1])
    /\ UNCHANGED <<OtherVars, main_node_map, main_scope_map, d_request, d_file, d_import,
                   d_return, d_text, d_files>>

\* one round of the loop over nested nodes: the recursive call
PopulateNested ==
    /\ d_pc = "populate"
    /\ Top.entered
    /\ Top.ii <= Len(TopNode.nestedNodes)
    /\ Push(nested_frame(Top, TopNode.nestedNodes), [Top EXCEPT !.ii = @ + 1])
    /\ UNCHANGED <<OtherVars, main_node_map, main_scope_map, d_request, d_file, d_import,
                   d_return, d_text, d_files>>

\* one round of the loop over the fields of a Struct: the recursive call for a
\* group, nothing for a slot
PopulateField ==
    /\ d_pc = "populate"
    /\ Top.entered
    /\ Top.ii > Len(TopNode.nestedNodes)
    /\ TopNode.which = "Struct"
    /\ Top.jj <= Len(TopNode.fields)
    /\ LET field == TopNode.fields[Top.jj] IN
       IF field.which = "Group"
       THEN IF capitalize_first_letter(field.name).fail
            THEN d_pc' = "aborted" /\ UNCHANGED d_stack
            ELSE Push(Frame(field.typeId,
                            Append(Top.scope_names, capitalize_first_letter(field.name).str)),
                      [Top EXCEPT !.jj = @ + 1])
       ELSE d_pc' = "populate" /\ d_stack' = SetTop([Top EXCEPT !.jj = @ + 1])
    /\ UNCHANGED <<OtherVars, main_node_map, main_scope_map, d_request, d_file, d_import,
                   d_return, d_text, d_files>>

\* populate_scope_map returns
PopulateReturn ==
    /\ d_pc = "populate"
    /\ Top.entered
    /\ Top.ii > Len(TopNode.nestedNodes)
    /\ TopNode.which = "Struct" => Top.jj > Len(TopNode.fields)
    /\ d_stack' = Pop
    /\ d_pc' = Returned(Pop)
    /\ UNCHANGED <<OtherVars, main_node_map, main_scope_map, d_request, d_file, d_import,
                   d_return, d_text, d_files>>

\* generate_node on the file and stringify
GenerateFile ==
    /\ d_pc = "generate"
    /\ LET node == generate_node(main_node_map, main_scope_map, CurrentFile.id,
                                 capnp_root_name(CurrentFile.filename).str)
       IN  IF node.fail
           THEN d_pc' = "aborted" /\ UNCHANGED d_text
           ELSE d_pc' = "write" /\ d_text' = stringify(file_lines(node))
    /\ UNCHANGED <<OtherVars, main_node_map, main_scope_map, d_request, d_file, d_import,
                   d_stack, d_return, d_files>>

OutputPath ==
    set_filename(CurrentFile.filename, capnp_root_name(CurrentFile.filename).str \o ".rs")

\* File::open_mode(Truncate, Write) and write succeed
WriteFile ==
    /\ d_pc = "write"
    /\ d_files' = Append(d_files, [path |-> OutputPath, text |-> d_text])
    /\ d_file' = d_file + 1
    /\ d_pc' = "file"
    /\ UNCHANGED <<OtherVars, main_node_map, main_scope_map, d_request, d_import, d_stack,
                   d_return, d_text>>

\* File::open_mode fails: fail!("could not open file for writing")
OpenFails ==
    /\ d_pc = "write"
    /\ d_pc' = "aborted"
    /\ UNCHANGED <<OtherVars, main_node_map, main_scope_map, d_request, d_file, d_import,
                   d_stack, d_return, d_text, d_files>>

\* the file is opened and truncated and write fails: try! returns the error
WriteFails ==
    /\ d_pc = "write"
    /\ d_files' = Append(d_files, [path |-> OutputPath, text |-> ""])
    /\ d_pc' = "error"
    /\ UNCHANGED <<OtherVars, main_node_map, main_scope_map, d_request, d_file, d_import,
                   d_stack, d_return, d_text>>

Next ==
    \/ IndexNodes \/ StartFile \/ Finish \/ PopulateImport \/ PopulateRoot
    \/ PopulateEnter \/ PopulateNested \/ PopulateField \/ PopulateReturn
    \/ GenerateFile \/ WriteFile \/ OpenFails \/ WriteFails

Spec == Init /\ [][Next]_vars

(***************************************************************************)
(* Claims about the scope map (Spec)                                       *)
(***************************************************************************)

\* the requested files whose scope-map population is over
PopulatedFiles ==
    IF d_pc \in {"generate", "write"} THEN 1..d_file
    ELSE IF d_pc \in {"index", "none"} THEN {}
    ELSE 1..(d_file - 1)

\* the ids populate_scope_map was started at for those files
SeedRoots ==
    UNION {{d_request.requestedFiles[k].id}
           \cup {d_request.requestedFiles[k].imports[j].id :
                    j \in 1..Len(d_request.requestedFiles[k].imports)} :
           k \in PopulatedFiles \cap 1..Len(d_request.requestedFiles)}

\* the ids a node leads to: its nested nodes and the types of its group fields
ChildrenOf(nodes, id) ==
    IF id \notin DOMAIN nodes THEN {}
    ELSE {nodes[id].nestedNodes[i].id : i \in 1..Len(nodes[id].nestedNodes)}
         \cup (IF nodes[id].which = "Struct"
               THEN {nodes[id].fields[j].typeId :
                        j \in {x \in 1..Len(nodes[id].fields) :
                                  nodes[id].fields[x].which = "Group"}}
               ELSE {})

RECURSIVE ReachableFrom(_, _)
ReachableFrom(nodes, seen) ==
    LET more == seen \cup UNION {ChildrenOf(nodes, id) : id \in seen} IN
    IF more = seen THEN seen ELSE ReachableFrom(nodes, more)

\* C10: once the scope map is populated for a requested file, the path of
\* every nested node of every node reachable from a seed root is the path of
\* its parent with the one segment `name` appended
C10_NestedPathExtendsParent ==
    \A p \in ReachableFrom(main_node_map, SeedRoots) \cap DOMAIN main_node_map :
        \A i \in 1..Len(main_node_map[p].nestedNodes) :
            LET child == main_node_map[p].nestedNodes[i] IN
            /\ p \in DOMAIN main_scope_map
            /\ child.id \in DOMAIN main_scope_map
            /\ main_scope_map[child.id] = Append(main_scope_map[p], child.name)
            /\ Len(main_scope_map[child.id]) = Len(main_scope_map[p]) + 1

\* the scope map populated for a file in which an enum is nested in a struct
\* nested in the file
C10_Witness ==
    /\ d_pc = "generate"
    /\ ColorId \in DOMAIN main_scope_map
    /\ main_scope_map[ColorId] = << "::my_schema_capnp", "Foo", "Color" >>
    /\ FooId \in ReachableFrom(main_node_map, SeedRoots)

\* the scope map is populated for the current file and main has not gone further
\* than writing it
PopulatedCurrent == d_pc \in {"generate", "write"}

\* C11: the scope-map entry of a requested file's root is the one segment
\* "<filestem>_capnp" with no "::" before it, while the entry of each of its
\* import roots is "::" followed by the same derivation from the import's name
C11_RootPathWithoutSigil ==
    PopulatedCurrent =>
        /\ main_scope_map[CurrentFile.id] = << capnp_root_name(CurrentFile.filename).str >>
        /\ \A j \in 1..Len(CurrentFile.imports) :
              CurrentFile.imports[j].id # CurrentFile.id =>
                 main_scope_map[CurrentFile.imports[j].id]
                    = << "::" \o capnp_root_name(CurrentFile.imports[j].name).str >>

\* what the code does instead: the root of a requested file has the sigil too
C11_RootPathHasSigil ==
    PopulatedCurrent =>
        /\ main_scope_map[CurrentFile.id]
              = << "::" \o capnp_root_name(CurrentFile.filename).str >>
        /\ \A j \in 1..Len(CurrentFile.imports) :
              main_scope_map[CurrentFile.imports[j].id]
                 = << "::" \o capnp_root_name(CurrentFile.imports[j].name).str >>

\* the name with only its first character upper-cased
FirstUpper(name) ==
    LET i == IndexOf(SubSeq(name, 1, 1), Lowers) IN
    (IF i > 0 THEN SubSeq(Uppers, i, i) ELSE SubSeq(name, 1, 1))
    \o SubSeq(name, 2, Len(name))

\* C12: once the scope map is populated, the path of the group of every Group
\* field of every reachable Struct present in node_map is the path of the
\* Struct with one segment appended, the field's name with its first character
\* upper-cased and the rest as it is
C12_GroupPathExtendsStruct ==
    \A p \in ReachableFrom(main_node_map, SeedRoots) \cap DOMAIN main_node_map :
        main_node_map[p].which = "Struct" =>
            \A j \in 1..Len(main_node_map[p].fields) :
                LET field == main_node_map[p].fields[j] IN
                field.which = "Group" =>
                    /\ p \in DOMAIN main_scope_map
                    /\ field.typeId \in DOMAIN main_scope_map
                    /\ main_scope_map[field.typeId]
                          = Append(main_scope_map[p], FirstUpper(field.name))

\* the scope map populated for a file with a group in a group in a struct
C12_Witness ==
    /\ d_pc = "generate"
    /\ InnerId \in DOMAIN main_scope_map
    /\ main_scope_map[InnerId] = << "::test_capnp", "Foo", "WidgetCount", "Inner" >>
    /\ GrpId \in ReachableFrom(main_node_map, SeedRoots)

\* C13: populate_scope_map gives an entry to every id reachable from its seeds
\* through nested nodes and group fields of the nodes present in node_map, an
\* absent id included, and to no other id (nothing is visited through an absent
\* id); and the run is not aborted while the scope map is being populated
C13_EveryReachableIdHasAnEntry ==
    /\ PopulatedCurrent =>
          DOMAIN main_scope_map = ReachableFrom(main_node_map, SeedRoots)
    /\ d_pc = "populate" => d_stack # << >>
    /\ d_pc = "aborted" => d_stack = << >> /\ CurrentFile.id \in DOMAIN main_scope_map

\* the scope map populated for the file lib whose nested Qux is absent from
\* node_map while QuxInner, nested in Qux, is present
C13_Witness ==
    /\ d_pc = "generate"
    /\ CurrentFile.id = File2Id
    /\ LibNodeIds.Qux \notin DOMAIN main_node_map
    /\ LibNodeIds.Qux \in DOMAIN main_scope_map
    /\ LibNodeIds.QuxInner \in DOMAIN main_node_map
    /\ LibNodeIds.QuxInner \notin DOMAIN main_scope_map

\* C14: a run either writes the output of every requested file or aborts before
\* any output file is opened: the run is never aborted with an output file
\* already opened
C14_AllOrNothing ==
    d_pc \in {"aborted", "error"} => d_files = << >>

\* generate_node has been called for some requested file
EmissionBegun == d_pc \in {"write", "error"} \/ d_file > 1 \/ d_files # << >>

\* C15: once generate_node has begun for any requested file, no step changes
\* node_map or scope_map
C15_MapsFrozenAfterEmission ==
    [][EmissionBegun =>
          main_node_map' = main_node_map /\ main_scope_map' = main_scope_map]_vars

\* what does hold: node_map is only changed by the loop that fills it
C15_NodeMapFrozenAfterIndex ==
    [][d_pc # "index" => main_node_map' = main_node_map]_vars

(***************************************************************************)
(* SpecNode: generate_node on one Struct or Enum node.                     *)
(***************************************************************************)

MaxPlain == 1
MaxEnumerants == 3

NodeFieldKinds == {"Void", "Text", "Struct", "Interface", "AnyPointer", "Group"}
NodeFieldNames == << "alpha", "betaGamma", "delta", "epsilonZeta", "eta" >>
EnumerantNames == << "red", "green", "darkBlue", "white", "black" >>

\* the field of kind `kind` at position i (1-based) with discriminant value dv
KindField(kind, i, dv) ==
    CASE kind = "Group" -> GroupField(NodeFieldNames[i], dv, GrpId)
      [] kind = "Struct" ->
            SlotField(NodeFieldNames[i], dv, i - 1, RefT("Struct", FooId), TagV("Struct"))
      [] kind = "Interface" ->
            SlotField(NodeFieldNames[i], dv, i - 1, RefT("Interface", SvcId),
                      TagV("Interface"))
      [] OTHER -> SlotField(NodeFieldNames[i], dv, i - 1, PrimT(kind), TagV(kind))

\* sequences of at most n kinds
RECURSIVE KindSeqs(_)
KindSeqs(n) ==
    IF n = 0 THEN {<< >>}
    ELSE KindSeqs(n - 1)
         \cup {Append(ks, k) : ks \in {x \in KindSeqs(n - 1) : Len(x) = n - 1},
                               k \in NodeFieldKinds}

\* a struct: fields outside the union, then the members of the union, none or two
FieldsNode(plain, members) ==
    [StructNode(OtherId, FileId) EXCEPT
        !.dataWordCount = 1,
        !.pointerCount = Len(plain) + Len(members),
        !.discriminantCount = Len(members),
        !.discriminantOffset = 0,
        !.fields = [i \in 1..(Len(plain) + Len(members)) |->
                      IF i <= Len(plain) THEN KindField(plain[i], i, NO_DISCRIMINANT)
                      ELSE KindField(members[i - Len(plain)], i, i - Len(plain) - 1)]]

\* the k-th method (0-based) of an interface: its params struct, its results
\* struct, or both made by the schema compiler (scopeId 0), the others being Foo
ShapedMethod(k, shape) ==
    [name |-> MethodNames[k + 1],
     paramStructType |-> IF shape[1] THEN AutoId + 2 * k ELSE FooId,
     resultStructType |-> IF shape[2] THEN AutoId + 2 * k + 1 ELSE FooId]

MethodShapes == BOOLEAN \X BOOLEAN

InterfacesUnderTest ==
    UNION {{InterfaceNode(OtherId, [k \in 1..n |-> ShapedMethod(k - 1, shapes[k])], << >>) :
               shapes \in [1..n -> MethodShapes]} : n \in 1..MaxMethods}

\* the node_map entries the methods refer to
MethodStructs ==
    (FooId :> StructNode(FooId, FileId))
    @@ [id \in AutoId..(AutoId + 2 * MaxMethods - 1) |-> StructNode(id, 0)]

NodesUnderTest ==
    InterfacesUnderTest \cup
    {FieldsNode(plain, members) :
        plain \in KindSeqs(MaxPlain),
        members \in {<< >>} \cup {<<a, b>> : a \in NodeFieldKinds, b \in {"Void", "Struct"}}}
    \cup {EnumNode(OtherId, FileId, SubSeq(EnumerantNames, 1, n)) : n \in 0..MaxEnumerants}

InitNode ==
    /\ f_pc = "none"
    /\ f_field = [which |-> "None"]
    /\ f_doff = 0
    /\ f_out = [fail |-> FALSE]
    /\ f_mem = EmptyStruct
    /\ f_ret = [call |-> "none"]
    /\ u_struct = [which |-> "None"]
    /\ u_out = [fail |-> FALSE]
    /\ i_todo = << >> /\ i_out = << >> /\ i_call = [sent |-> FALSE]
    /\ i_ret = [call |-> "none"]
    /\ d_pc = "none" /\ d_request = [nodes |-> << >>, requestedFiles |-> << >>]
    /\ d_file = 0 /\ d_import = 0 /\ d_stack = << >> /\ d_return = "none"
    /\ d_text = "" /\ d_files = << >>
    /\ NoCall
    /\ n_pc = "start"
    /\ n_node \in NodesUnderTest
    /\ n_out = [fail |-> FALSE, lines |-> << >>]
    /\ main_node_map = (OtherId :> n_node) @@ FixtureNodeMap @@ MethodStructs
    /\ main_scope_map = (OtherId :> << "::test_capnp", "Other" >>) @@ FixtureScopeMap

\* what is kept of the text generate_node returned: its lines
NodeOutput(node) ==
    IF node.fail THEN [fail |-> TRUE, lines |-> << >>]
    ELSE [fail |-> FALSE, lines |-> to_lines(node.ft, 0)]

\* generate_node(node_map, scope_map, id, scope_map[id].last())
GenerateNode ==
    /\ n_pc = "start"
    /\ n_out' = NodeOutput(generate_node(main_node_map, main_scope_map, n_node.id,
                                         child_call(main_scope_map, n_node.id).name))
    /\ n_pc' = IF n_out'.fail THEN "failed" ELSE "generated"
    /\ UNCHANGED <<main_node_map, main_scope_map, f_vars, u_vars, i_vars, d_vars, n_node, p_vars>>

NextNode == GenerateNode

SpecNode == InitNode /\ [][NextNode]_vars

(***************************************************************************)
(* Claims about the emitted Struct and Enum modules (SpecNode)             *)
(***************************************************************************)

NodeGenerated == n_pc = "generated"
IsStructNode == n_node.which = "Struct"
IsEnumNode == n_node.which = "Enum"

\* the index of the first line that is `text` once trimmed, 0 if none
FirstLine(lines, text) ==
    LET is == {j \in 1..Len(lines) : Trim(lines[j]) = text} IN
    IF is = {} THEN 0 ELSE CHOOSE j \in is : \A k \in is : j <= k

\* the lines of the first block opened by the line `header`, up to the line
\* that closes it at the same indentation
BlockLines(lines, header) ==
    LET h == FirstLine(lines, header)
        close == from_char(Len(lines[h]) - Len(header), " ") \o "}"
        cs == {j \in (h + 1)..Len(lines) : lines[j] = close}
    IN  IF h = 0 \/ cs = {} THEN << >>
        ELSE SubSeq(lines, h + 1, (CHOOSE j \in cs : \A k \in cs : j <= k) - 1)

\* the name of the method a line `pub fn name...` declares
FnName(line) ==
    LET r == SubSeq(Trim(line), 8, Len(Trim(line)))
        p == FindFrom(r, "(", 1)
        q == FindFrom(r, "<", 1)
    IN  SubSeq(r, 1, (IF q > 0 /\ q < p THEN q ELSE p) - 1)

\* the names of the methods declared in the block: one per `pub fn` line
FnNames(block) ==
    LET decls == SelectSeq(block, LAMBDA l : StartsWith(Trim(l), "pub fn ")) IN
    [j \in 1..Len(decls) |-> FnName(decls[j])]

ReaderFns == FnNames(BlockLines(n_out.lines, "impl <'a> Reader<'a> {"))
BuilderFns == FnNames(BlockLines(n_out.lines, "impl <'a> Builder<'a> {"))
PipelineFns == FnNames(BlockLines(n_out.lines, "impl Pipeline {"))

Range(seq) == {seq[j] : j \in 1..Len(seq)}
Count(seq, x) == Cardinality({j \in 1..Len(seq) : seq[j] = x})

\* the accessors C16 is about: get_<field>, has_<field> and which
IsReadAccessor(name) ==
    StartsWith(name, "get_") \/ StartsWith(name, "has_") \/ name = "which"

StyledName(field) == camel_to_snake_case(field.name).str
FieldsOfNode == Range(n_node.fields)

\* C16: on every emitted struct the accessors get_<field>, has_<field> and
\* which of the Reader are those of the Builder, each once; get_<field> is on
\* both exactly for the fields outside the union, and which on both exactly
\* when discriminantCount > 0
C16_ReaderAndBuilderAccessorsAgree ==
    NodeGenerated /\ IsStructNode =>
        /\ {x \in Range(ReaderFns) : IsReadAccessor(x)}
              = {x \in Range(BuilderFns) : IsReadAccessor(x)}
        /\ \A x \in Range(ReaderFns) : Count(ReaderFns, x) = 1 /\ Count(BuilderFns, x) = 1
        /\ \A field \in FieldsOfNode :
              /\ ("get_" \o StyledName(field)) \in Range(ReaderFns)
                    <=> field.discriminantValue = NO_DISCRIMINANT
              /\ ("has_" \o StyledName(field)) \in Range(ReaderFns)
                    <=> ("has_" \o StyledName(field)) \in Range(BuilderFns)
        /\ "which" \in Range(ReaderFns) <=> n_node.discriminantCount > 0

\* a struct emitted with a Text field outside the union and a union
C16_Witness ==
    /\ NodeGenerated /\ IsStructNode
    /\ n_node.discriminantCount = 2
    /\ Len(n_node.fields) = 3
    /\ "get_alpha" \in Range(BuilderFns)
    /\ "has_alpha" \in Range(BuilderFns)
    /\ "which" \in Range(BuilderFns)

IsPointerOrGroup(field) ==
    \/ field.which = "Group"
    \/ field.which = "Slot"
       /\ field.type.tag \in {"Text", "Data", "List", "Struct", "AnyPointer", "Interface"}

\* C17: for every field of an emitted struct the Builder has exactly one
\* set_<field>, whatever the field is, and has an init_<field> exactly when the
\* field is pointer-typed (Text, Data, List, Struct, AnyPointer, Interface) or
\* a group
C17_OneSetterAndInitterForPointers ==
    NodeGenerated /\ IsStructNode =>
        \A field \in FieldsOfNode :
            /\ Count(BuilderFns, "set_" \o StyledName(field)) = 1
            /\ Count(BuilderFns, "init_" \o StyledName(field))
                  = (IF IsPointerOrGroup(field) THEN 1 ELSE 0)

\* what the code does: no set_ for a group or an AnyPointer, no init_ for an
\* Interface
C17_SetterAndInitterAsEmitted ==
    NodeGenerated /\ IsStructNode =>
        \A field \in FieldsOfNode :
            /\ Count(BuilderFns, "set_" \o StyledName(field))
                  = (IF field.which = "Group" THEN 0
                     ELSE IF field.type.tag = "AnyPointer" THEN 0 ELSE 1)
            /\ Count(BuilderFns, "init_" \o StyledName(field))
                  = (IF field.which = "Group" THEN 1
                     ELSE IF field.type.tag \in {"Text", "Data", "List", "Struct",
                                                 "AnyPointer"} THEN 1 ELSE 0)

\* C18: the Pipeline of an emitted struct has a getter for a field if and only
\* if the field is a slot of type Struct or Interface
C18_PipelineGettersForStructAndInterface ==
    NodeGenerated /\ IsStructNode =>
        \A field \in FieldsOfNode :
            ("get_" \o StyledName(field)) \in Range(PipelineFns)
               <=> (field.which = "Slot" /\ field.type.tag \in {"Struct", "Interface"})

\* what the code does: a getter for the groups too, and none for a member of
\* the union
C18_PipelineGettersAsEmitted ==
    NodeGenerated /\ IsStructNode =>
        \A field \in FieldsOfNode :
            ("get_" \o StyledName(field)) \in Range(PipelineFns)
               <=> /\ field.discriminantValue = NO_DISCRIMINANT
                   /\ \/ field.which = "Group"
                      \/ field.type.tag \in {"Struct", "Interface"}

\* the lines of the emitted `pub enum Reader { .. }`
EnumVariantLines == BlockLines(n_out.lines, "pub enum Reader {")

\* C19: the emitted enum is repr(u16) and has one variant per enumerant, in
\* declared order, the i-th (0-based) being given the number i; and to_u16 is
\* emitted for it
C19_EnumVariantsNumberedInOrder ==
    NodeGenerated /\ IsEnumNode =>
        /\ Len(EnumVariantLines) = Len(n_node.enumerants)
        /\ \A i \in 1..Len(n_node.enumerants) :
              Trim(EnumVariantLines[i])
                 = FirstUpper(n_node.enumerants[i]) \o " = " \o ToString(i - 1) \o ","
        /\ FirstLine(n_out.lines, "#[repr(u16)]") > 0
        /\ FirstLine(n_out.lines, "#[repr(u16)]") < FirstLine(n_out.lines, "pub enum Reader {")
        /\ << "#[inline]", "fn to_u16(self) -> u16 { self as u16 }" >>
              = [j \in 1..2 |-> Trim(BlockLines(n_out.lines, "impl ToU16 for Reader {")[j])]

\* an enum emitted with three enumerants
C19_Witness ==
    /\ NodeGenerated /\ IsEnumNode
    /\ Len(n_node.enumerants) = 3
    /\ Len(EnumVariantLines) = 3
    /\ Trim(EnumVariantLines[3]) = "DarkBlue = 2,"

IsInterfaceNode == n_node.which = "Interface"

\* the name the method's types must use for a struct: <Method><suffix> when the
\* struct has scopeId 0, its scope-map path otherwise
ExpectedStructName(method, struct_id, suffix) ==
    IF main_node_map[struct_id].scopeId = 0 THEN FirstUpper(method.name) \o suffix
    ELSE connect(main_scope_map[struct_id], "::")

\* the number of lines that are `text` once trimmed
Occurrences(text) == Cardinality({j \in 1..Len(n_out.lines) : Trim(n_out.lines[j]) = text})

\* the emitted <Method>Context typedef and <m>_request signature that use the
\* names p and r
ContextLine(method, p, r) ==
    "pub type " \o FirstUpper(method.name) \o "Context<'a> = capability::CallContext<"
    \o p \o "::Reader<'a>, " \o r \o "::Builder<'a>>;"
RequestDecl(method, p, r) ==
    "pub fn " \o camel_to_snake_case(method.name).str \o "_request<'a>(&self) -> Request<"
    \o p \o "::Builder<'a>," \o r \o "::Reader<'a>," \o r \o "::Pipeline> {"

\* the struct is emitted once, directly inside the interface's module, under
\* <Method><suffix> if its scopeId is 0, and not under the interface otherwise
NestedAsExpected(method, struct_id, suffix) ==
    LET mod == "pub mod " \o FirstUpper(method.name) \o suffix \o " {" IN
    IF main_node_map[struct_id].scopeId = 0
    THEN /\ Occurrences(mod) = 1
         /\ n_out.lines[FirstLine(n_out.lines, mod)] = "  " \o mod
    ELSE /\ Occurrences(mod) = 0
         /\ Occurrences("pub mod " \o main_scope_map[struct_id][Len(main_scope_map[struct_id])]
                        \o " {") = 0

\* C20: for every method of an emitted interface, a params (results) struct of
\* scopeId 0 is emitted nested in the interface's module as <Method>Params
\* (<Method>Results) and the method's Context and request types use that name;
\* a struct of another scopeId is not emitted under the interface and the
\* types use its scope-map path
C20_MethodStructsNestedOrReferenced ==
    NodeGenerated /\ IsInterfaceNode =>
        \A k \in 1..Len(n_node.methods) :
            LET method == n_node.methods[k]
                p == ExpectedStructName(method, method.paramStructType, "Params")
                r == ExpectedStructName(method, method.resultStructType, "Results")
            IN  /\ NestedAsExpected(method, method.paramStructType, "Params")
                /\ NestedAsExpected(method, method.resultStructType, "Results")
                /\ Occurrences(ContextLine(method, p, r)) = 1
                /\ Occurrences(RequestDecl(method, p, r)) = 1

\* an interface emitted with a method whose params struct has scopeId 0 and
\* whose results struct is Foo
C20_Witness ==
    /\ NodeGenerated /\ IsInterfaceNode
    /\ Len(n_node.methods) = 2
    /\ n_node.methods[2].paramStructType # FooId
    /\ n_node.methods[2].resultStructType = FooId
    /\ Occurrences("pub mod GetValueParams {") = 1
    /\ Occurrences(ContextLine(n_node.methods[2], "GetValueParams", "::test_capnp::Foo")) = 1

(***************************************************************************)
(* Claims about unsupported constructs (Spec)                              *)
(***************************************************************************)

\* a list whose elements, at some depth, are AnyPointer or Interface
RECURSIVE UnsupportedElement(_)
UnsupportedElement(type) ==
    \/ type.tag \in {"AnyPointer", "Interface"}
    \/ type.tag = "List" /\ UnsupportedElement(type.elem)

UnsupportedField(field) ==
    field.which = "Slot" /\ field.type.tag = "List" /\ UnsupportedElement(field.type.elem)

UnsupportedNode(node) ==
    \/ /\ node.which = "Const"
       /\ node.type.tag \in {"Text", "Data", "List", "Struct", "AnyPointer", "Interface"}
    \/ /\ node.which = "Struct"
       /\ \E j \in 1..Len(node.fields) : UnsupportedField(node.fields[j])

\* the k-th requested file has an unsupported construct in a node of the file
HasUnsupported(k) ==
    \E id \in ReachableFrom(main_node_map, {d_request.requestedFiles[k].id})
                \cap DOMAIN main_node_map :
        UnsupportedNode(main_node_map[id])

OutputPathOf(file) ==
    set_filename(file.filename, capnp_root_name(file.filename).str \o ".rs")

\* C21: a requested file with a struct field of type List(AnyPointer) or
\* List(Interface), at any list depth, or with a Const of type Text, Data,
\* List, Struct, AnyPointer or Interface, is never written: a run that gets to
\* the file aborts before it opens the file's output, no run gets past the
\* file, and none ends with Ok
C21_UnsupportedConstructAborts ==
    d_pc # "index" =>
        \A k \in 1..Len(d_request.requestedFiles) :
            HasUnsupported(k) =>
                /\ d_file <= k
                /\ d_file = k => d_pc \in {"file", "imports", "populate", "generate", "aborted"}
                /\ d_pc # "done"
                /\ \A i \in 1..Len(d_files) :
                       d_files[i].path # OutputPathOf(d_request.requestedFiles[k])

\* the run aborted in generate_node on the second requested file, which has an
\* unsupported construct, the first file being written
C21_Witness ==
    /\ d_pc = "aborted" /\ d_file = 2 /\ d_stack = << >>
    /\ HasUnsupported(2) /\ ~HasUnsupported(1)
    /\ Len(d_files) = 1 /\ d_files[1].text # ""
    /\ CurrentFile.id \in DOMAIN main_scope_map


(***************************************************************************)
(* SpecIdent: one call of an identifier conversion on a string.            *)
(***************************************************************************)

MaxLen == 3

\* the characters the strings are made of: letters of both cases, digits,
\* and characters that are not alphanumeric
IdentChars == {"a", "z", "B", "Z", "0", "9", "_", "-"}

RECURSIVE StringsUpTo(_)
StringsUpTo(n) ==
    IF n = 0 THEN {""}
    ELSE LET shorter == StringsUpTo(n - 1)
         IN  shorter \cup {c \o t : c \in IdentChars, t \in shorter}

Conversions == {"camel_to_upper_case", "camel_to_snake_case", "capitalize_first_letter"}

InitIdent ==
    /\ u_struct = [which |-> "None"] /\ u_out = [fail |-> FALSE]
    /\ i_todo = << >> /\ i_out = << >> /\ i_call = [sent |-> FALSE]
    /\ i_ret = [call |-> "none"]
    /\ d_pc = "none" /\ d_request = [nodes |-> << >>, requestedFiles |-> << >>]
    /\ d_file = 0 /\ d_import = 0 /\ d_stack = << >> /\ d_return = "none"
    /\ d_text = "" /\ d_files = << >>
    /\ n_pc = "none" /\ n_node = [which |-> "None"]
    /\ n_out = [fail |-> FALSE, lines |-> << >>]
    /\ main_node_map = << >> /\ main_scope_map = << >>
    /\ f_pc = "none" /\ f_field = [which |-> "None"] /\ f_doff = 0
    /\ f_out = [fail |-> FALSE] /\ f_mem = EmptyStruct /\ f_ret = [call |-> "none"]
    /\ p_pc = "call"
    /\ p_arg \in [fn : Conversions, s : StringsUpTo(MaxLen)]
    /\ p_ret = << >>

IdleVars == <<main_node_map, main_scope_map, f_vars, u_vars, i_vars, d_vars, n_vars>>

CallUpperCase ==
    /\ p_pc = "call" /\ p_arg.fn = "camel_to_upper_case"
    /\ p_ret' = camel_to_upper_case(p_arg.s)
    /\ p_pc' = "returned"
    /\ UNCHANGED <<IdleVars, p_arg>>

CallSnakeCase ==
    /\ p_pc = "call" /\ p_arg.fn = "camel_to_snake_case"
    /\ p_ret' = camel_to_snake_case(p_arg.s)
    /\ p_pc' = "returned"
    /\ UNCHANGED <<IdleVars, p_arg>>

CallCapitalize ==
    /\ p_pc = "call" /\ p_arg.fn = "capitalize_first_letter"
    /\ p_ret' = capitalize_first_letter(p_arg.s)
    /\ p_pc' = "returned"
    /\ UNCHANGED <<IdleVars, p_arg>>

NextIdent == CallUpperCase \/ CallSnakeCase \/ CallCapitalize

SpecIdent == InitIdent /\ [][NextIdent]_vars

(***************************************************************************)
(* Claims about the identifier conversions (SpecIdent)                     *)
(***************************************************************************)

Chars(s) == {CharAt(s, i) : i \in 1..Len(s)}
UpperCount(s) == Cardinality({i \in 1..Len(s) : CharAt(s, i) \in Chars(Uppers)})
IsAlphanumericString(s) == Chars(s) \subseteq Chars(Uppers \o Lowers \o Digits)

\* the letter of the other case at the same place of the alphabet
LowerOf(c) == CHOOSE l \in Chars(Lowers) : IndexOf(l, Lowers) = IndexOf(c, Uppers)
UpperOf(c) == CHOOSE u \in Chars(Uppers) : IndexOf(u, Uppers) = IndexOf(c, Lowers)

\* s with every uppercase letter c replaced by '_' and the lowercase of c
SnakeOf(s) ==
    connect([i \in 1..Len(s) |->
                IF CharAt(s, i) \in Chars(Uppers) THEN "_" \o LowerOf(CharAt(s, i))
                ELSE CharAt(s, i)], "")

\* s with '_' before every uppercase letter and every letter upper-cased
UpperSnakeOf(s) ==
    connect([i \in 1..Len(s) |->
                IF CharAt(s, i) \in Chars(Uppers) THEN "_" \o CharAt(s, i)
                ELSE IF CharAt(s, i) \in Chars(Lowers) THEN UpperOf(CharAt(s, i))
                ELSE CharAt(s, i)], "")

\* C22: on an alphanumeric string camel_to_snake_case returns the string with
\* every uppercase letter replaced by '_' and its lowercase, camel_to_upper_case
\* the string with '_' before every uppercase letter and all letters
\* upper-cased; the one has only lowercase letters, digits and '_', the other
\* only uppercase letters, digits and '_', and both are as long as the string
\* plus the number of its uppercase letters
C22_SnakeAndUpperCase ==
    (p_pc = "returned" /\ IsAlphanumericString(p_arg.s)
        /\ p_arg.fn \in {"camel_to_snake_case", "camel_to_upper_case"}) =>
        /\ ~p_ret.fail
        /\ Len(p_ret.str) = Len(p_arg.s) + UpperCount(p_arg.s)
        /\ p_arg.fn = "camel_to_snake_case" =>
              /\ p_ret.str = SnakeOf(p_arg.s)
              /\ Chars(p_ret.str) \subseteq Chars(Lowers \o Digits \o "_")
        /\ p_arg.fn = "camel_to_upper_case" =>
              /\ p_ret.str = UpperSnakeOf(p_arg.s)
              /\ Chars(p_ret.str) \subseteq Chars(Uppers \o Digits \o "_")

\* camel_to_snake_case returned on a string with a lowercase letter, an
\* uppercase letter and a digit
C22_Witness ==
    /\ p_pc = "returned" /\ p_arg.fn = "camel_to_snake_case"
    /\ p_arg.s = "aB9" /\ p_ret = [fail |-> FALSE, str |-> "a_b9"]

\* C23: each of camel_to_snake_case, camel_to_upper_case and
\* capitalize_first_letter aborts on every string with a character that is
\* not alphanumeric
C23_NonAlphanumericAborts ==
    (p_pc = "returned" /\ ~IsAlphanumericString(p_arg.s)) => p_ret.fail

\* the two conversions that assert is_alphanumeric abort on such a string
C23_CamelConversionsAbort ==
    (p_pc = "returned" /\ ~IsAlphanumericString(p_arg.s)
        /\ p_arg.fn \in {"camel_to_snake_case", "camel_to_upper_case"}) => p_ret.fail


(***************************************************************************)
(* SpecText: stringify on text trees.                                      *)
(***************************************************************************)

MaxSize == 4

\* the text trees of n nodes, a Branch having at most two subtrees
RECURSIVE TreesOfSize(_)
TreesOfSize(n) ==
    IF n = 1 THEN {Line(""), Line("a"), BlankLine, Branch(<< >>)}
    ELSE {Indent(t) : t \in TreesOfSize(n - 1)}
         \cup {Branch(<< t >>) : t \in TreesOfSize(n - 1)}
         \cup UNION {{Branch(<< t, u >>) : t \in TreesOfSize(a), u \in TreesOfSize(n - 1 - a)} :
                        a \in 1..(n - 2)}

Trees(n) == UNION {TreesOfSize(k) : k \in 1..n}

TreePairs(n) ==
    UNION {{[x |-> t, y |-> u] : t \in TreesOfSize(a), u \in Trees(n - a)} : a \in 1..(n - 1)}

InitText ==
    /\ u_struct = [which |-> "None"] /\ u_out = [fail |-> FALSE]
    /\ i_todo = << >> /\ i_out = << >> /\ i_call = [sent |-> FALSE]
    /\ i_ret = [call |-> "none"]
    /\ d_pc = "none" /\ d_request = [nodes |-> << >>, requestedFiles |-> << >>]
    /\ d_file = 0 /\ d_import = 0 /\ d_stack = << >> /\ d_return = "none"
    /\ d_text = "" /\ d_files = << >>
    /\ n_pc = "none" /\ n_node = [which |-> "None"]
    /\ n_out = [fail |-> FALSE, lines |-> << >>]
    /\ main_node_map = << >> /\ main_scope_map = << >>
    /\ f_pc = "none" /\ f_field = [which |-> "None"] /\ f_doff = 0
    /\ f_out = [fail |-> FALSE] /\ f_mem = EmptyStruct /\ f_ret = [call |-> "none"]
    /\ p_pc = "call"
    /\ \/ \E t \in Trees(MaxSize) : p_arg = [fn |-> "indent", x |-> t]
       \/ \E xy \in TreePairs(MaxSize) : p_arg = [fn |-> "branch", x |-> xy.x, y |-> xy.y]
    /\ p_ret = << >>

\* stringify on x and on Indent(x)
StringifyIndent ==
    /\ p_pc = "call" /\ p_arg.fn = "indent"
    /\ p_ret' = [x |-> stringify(p_arg.x), indent |-> stringify(Indent(p_arg.x))]
    /\ p_pc' = "returned"
    /\ UNCHANGED <<IdleVars, p_arg>>

\* stringify on x, on y and on Branch(vec!(x, BlankLine, y))
StringifyBranch ==
    /\ p_pc = "call" /\ p_arg.fn = "branch"
    /\ p_ret' = [x |-> stringify(p_arg.x), y |-> stringify(p_arg.y),
                 branch |-> stringify(Branch(<< p_arg.x, BlankLine, p_arg.y >>))]
    /\ p_pc' = "returned"
    /\ UNCHANGED <<IdleVars, p_arg>>

NextText == StringifyIndent \/ StringifyBranch

SpecText == InitText /\ [][NextText]_vars

(***************************************************************************)
(* Claims about stringify (SpecText)                                       *)
(***************************************************************************)

\* the lines of a text: what stands between its newlines
RECURSIVE SplitLines(_, _)
SplitLines(text, line) ==
    IF text = "" THEN << line >>
    ELSE IF Head(text) = "\n" THEN << line >> \o SplitLines(Tail(text), "")
    ELSE SplitLines(Tail(text), line \o Head(text))

\* the text with two spaces before each of its lines that is not empty
WithTwoSpaces(text) ==
    LET lines == SplitLines(text, "") IN
    connect([i \in 1..Len(lines) |-> IF lines[i] = "" THEN "" ELSE "  " \o lines[i]], "\n")

RECURSIVE WithoutTrailingNewlines(_)
WithoutTrailingNewlines(text) ==
    IF text # "" /\ SubSeq(text, Len(text), Len(text)) = "\n"
    THEN WithoutTrailingNewlines(SubSeq(text, 1, Len(text) - 1))
    ELSE text

RECURSIVE HasEmptyLine(_)
\* the tree has a Line of the empty string
HasEmptyLine(ft) ==
    CASE ft.tag = "Line" -> ft.s = ""
      [] ft.tag = "Indent" -> HasEmptyLine(ft.ft)
      [] ft.tag = "Branch" -> \E i \in 1..Len(ft.fts) : HasEmptyLine(ft.fts[i])
      [] OTHER -> FALSE

\* C24: for every text tree x, a Line of the empty string included,
\* stringify(Indent(x)) is stringify(x) with two spaces before every line that
\* is not empty, the empty lines staying empty
C24_IndentPrependsTwoSpaces ==
    (p_pc = "returned" /\ p_arg.fn = "indent") => p_ret.indent = WithTwoSpaces(p_ret.x)

\* the same for the trees without a Line of the empty string
C24_IndentOfNonEmptyLines ==
    (p_pc = "returned" /\ p_arg.fn = "indent" /\ ~HasEmptyLine(p_arg.x)) =>
        p_ret.indent = WithTwoSpaces(p_ret.x)

\* C25: for all text trees x and y, those of no line included,
\* stringify(Branch([x, BlankLine, y])) is stringify(x), a newline and
\* stringify(y), but for the newlines at the end
C25_BranchWithBlankLine ==
    (p_pc = "returned" /\ p_arg.fn = "branch") =>
        WithoutTrailingNewlines(p_ret.branch)
            = WithoutTrailingNewlines(p_ret.x \o "\n" \o p_ret.y)

\* the same when x has a line
C25_BranchOfNonEmptyTrees ==
    (p_pc = "returned" /\ p_arg.fn = "branch" /\ to_lines(p_arg.x, 0) # << >>) =>
        WithoutTrailingNewlines(p_ret.branch)
            = WithoutTrailingNewlines(p_ret.x \o "\n" \o p_ret.y)


(***************************************************************************)
(* Claims about the element size of list fields (SpecField)                *)
(***************************************************************************)

RECURSIVE IdentifierAt(_, _)
\* the letters and digits of the line from position i on
IdentifierAt(line, i) ==
    IF i > Len(line) \/ ~is_alphanumeric(CharAt(line, i)) THEN ""
    ELSE CharAt(line, i) \o IdentifierAt(line, i + 1)

\* the element sizes the lines name: what follows "layout::"
ElementSizesNamed(lines) ==
    UNION {{IdentifierAt(lines[k], i + Len("layout::")) :
               i \in {j \in 1..Len(lines[k]) : FindFrom(lines[k], "layout::", j) = j}} :
           k \in 1..Len(lines)}

\* the element size the element type of a list fixes
ElementSizeOf(elem) ==
    CASE elem.tag = "Void" -> "Void"
      [] elem.tag = "Bool" -> "Bit"
      [] elem.tag \in {"Int8", "Uint8"} -> "Byte"
      [] elem.tag \in {"Int16", "Uint16", "Enum"} -> "TwoBytes"
      [] elem.tag \in {"Int32", "Uint32", "Float32"} -> "FourBytes"
      [] elem.tag \in {"Int64", "Uint64", "Float64"} -> "EightBytes"
      [] elem.tag \in {"Text", "Data", "List"} -> "Pointer"

IsSizedList(field) ==
    /\ IsSlot(field) /\ field.type.tag = "List"
    /\ field.type.elem.tag \in {"Void", "Bool", "Enum", "Text", "Data", "List"} \cup NumericTags

\* C26: for a list field whose elements are Void, Bool, numbers, enums, Text,
\* Data or lists, the Reader getter, the Builder getter and the initter each
\* name one element size, the same, fixed by the element type: Void, Bit,
\* Byte, TwoBytes, FourBytes or EightBytes by width, TwoBytes for an enum,
\* Pointer for Text, Data and List
C26_ListElementSize ==
    (Generated /\ IsSizedList(f_field)) =>
        /\ InitterEmitted
        /\ ElementSizesNamed(to_lines(f_out.getter_reader.get, 0))
               = {ElementSizeOf(f_field.type.elem)}
        /\ ElementSizesNamed(to_lines(f_out.getter_builder.get, 0))
               = {ElementSizeOf(f_field.type.elem)}
        /\ ElementSizesNamed(to_lines(Branch(Setter.initter_interior), 0))
               = {ElementSizeOf(f_field.type.elem)}

\* the accessors of a List(Bool) field are emitted and name Bit
C26_Witness ==
    /\ Generated /\ IsSlot(f_field) /\ f_field.type = ListT(PrimT("Bool"))
    /\ ElementSizesNamed(to_lines(f_out.getter_reader.get, 0)) = {"Bit"}
    /\ ElementSizesNamed(to_lines(Branch(Setter.initter_interior), 0)) = {"Bit"}


(***************************************************************************)
(* SpecPopulate: one call of populate_scope_map by main, on node graphs    *)
(* that may be trees, may share nodes and may have cycles.                 *)
(***************************************************************************)

GraphIds == [Root |-> 21, Left |-> 22, Right |-> 23, Missing |-> 24]
NoTarget == GraphIds.Root - GraphIds.Root

\* a struct with at most one nested node and at most one group field
GraphNode(id, nested, group) ==
    [StructNode(id, NoTarget) EXCEPT
        !.nestedNodes = IF nested = NoTarget THEN << >>
                        ELSE << [name |-> "Nested", id |-> nested] >>,
        !.fields = IF group = NoTarget THEN << >>
                   ELSE << GroupField("group", NO_DISCRIMINANT, group) >>]

NestedTargets ==
    {NoTarget, GraphIds.Root, GraphIds.Left, GraphIds.Right, GraphIds.Missing}
GroupTargets == {NoTarget, GraphIds.Left, GraphIds.Right}

\* the nodes of the request: three structs, the id Missing having no node
Graphs ==
    {<< GraphNode(GraphIds.Root, n1, g1), GraphNode(GraphIds.Left, n2, g2),
        GraphNode(GraphIds.Right, n3, g3) >> :
        n1 \in NestedTargets, n2 \in NestedTargets, n3 \in NestedTargets,
        g1 \in GroupTargets, g2 \in GroupTargets, g3 \in GroupTargets}

\* main has filled node_map and calls populate_scope_map on the requested file
InitPopulate ==
    /\ u_struct = [which |-> "None"] /\ u_out = [fail |-> FALSE]
    /\ i_todo = << >> /\ i_out = << >> /\ i_call = [sent |-> FALSE]
    /\ i_ret = [call |-> "none"]
    /\ NoNode
    /\ f_pc = "none" /\ f_field = [which |-> "None"] /\ f_doff = 0
    /\ f_out = [fail |-> FALSE] /\ f_mem = EmptyStruct /\ f_ret = [call |-> "none"]
    /\ \E nodes \in Graphs :
          /\ d_request = [nodes |-> nodes,
                          requestedFiles |-> << RequestedFile(GraphIds.Root, "graph.capnp", << >>) >>]
          /\ main_node_map = index_nodes(nodes, 1, << >>)
    /\ main_scope_map = << >>
    /\ d_pc = "populate"
    /\ d_file = 1 /\ d_import = 1
    /\ d_stack = << Frame(GraphIds.Root, << "::graph_capnp" >>) >>
    /\ d_return = "generate"
    /\ d_text = "" /\ d_files = << >>

NextPopulate == PopulateEnter \/ PopulateNested \/ PopulateField \/ PopulateReturn

\* populate_scope_map runs on: nothing else is scheduled
SpecPopulate == InitPopulate /\ [][NextPopulate]_vars /\ WF_vars(NextPopulate)

(***************************************************************************)
(* Claims about the traversal (SpecPopulate)                               *)
(***************************************************************************)

GraphReach == ReachableFrom(main_node_map, {CurrentFile.id})

\* the ids below a node
DescendantsOf(id) == ReachableFrom(main_node_map, ChildrenOf(main_node_map, id))

\* a reachable node, present in node_map, is below itself
Cyclic == \E id \in GraphReach \cap DOMAIN main_node_map : id \in DescendantsOf(id)

\* the nestedNodes entries and group fields of reachable nodes that lead to id
EdgesTo(id) ==
    UNION {{<< p, "nested", i >> :
               i \in {x \in 1..Len(main_node_map[p].nestedNodes) :
                         main_node_map[p].nestedNodes[x].id = id}}
           \cup {<< p, "group", j >> :
                    j \in {x \in 1..Len(main_node_map[p].fields) :
                              /\ main_node_map[p].fields[x].which = "Group"
                              /\ main_node_map[p].fields[x].typeId = id}} :
           p \in GraphReach \cap DOMAIN main_node_map}

\* every reachable node is reached through one entry or field only
Forest ==
    /\ ~Cyclic
    /\ EdgesTo(CurrentFile.id) = {}
    /\ \A id \in GraphReach \ {CurrentFile.id} : Cardinality(EdgesTo(id)) = 1

\* a call of populate_scope_map is about to insert: the id has no entry yet
EnteredOnce ==
    (d_pc = "populate" /\ ~Top.entered) => Top.node_id \notin DOMAIN main_scope_map

\* the call by main has returned: every reachable id has been entered
AllEntered == d_pc = "generate" => DOMAIN main_scope_map = GraphReach

ListedIds ==
    {TopId} \cup {main_node_map[TopId].extends[i] :
                     i \in 1..Len(main_node_map[TopId].extends)}

\* the call is addressed to an interface Top does not list, or to a position
\* at which the addressed interface declares no method
Unlisted(call) ==
    IF call.interface_id \notin ListedIds THEN TRUE
    ELSE call.method_id >= Len(main_node_map[call.interface_id].methods)

\* the last arm of the match of a generated function
LastArm(ft) == LET lines == to_lines(ft, 0) IN Trim(lines[Len(lines) - 3])

\* C28: a call whose interface id is neither Top's node id nor one of its
\* listed bases, or whose method id is the position of no declared method,
\* reaches no Server method and raises no error: the matches of dispatch_call
\* and dispatch_call_internal end with the empty default arm
C28_UnlistedCallFallsThrough ==
    InterfacesGenerated =>
        /\ \A id \in {TopId, MidId, BaseId} :
              /\ LastArm(i_out[id].dispatch_call) = "_ => {}"
              /\ LastArm(i_out[id].dispatch_call_internal) = "_ => {}"
        /\ (i_ret.call = "dispatch" /\ Unlisted(i_call)) => i_ret = NotServed

\* a call to Top's own id at the position after its last method fell through,
\* and so did one to an id Top does not list
C28_Witness ==
    /\ InterfacesGenerated
    /\ i_ret = NotServed
    /\ i_call.via = NoClient
    /\ i_call.interface_id = TopId
    /\ Len(main_node_map[TopId].methods) = MaxMethods
    /\ i_call.method_id = MaxMethods


(***************************************************************************)
(* Claims about the modules of an output file (Spec)                       *)
(***************************************************************************)

\* the edges along which generate_node descends from a node: its nestedNodes,
\* its group fields, and the scopeId == 0 structs of its methods, each with the
\* name the module is to have
EdgesOf(nodes, id) ==
    IF id \notin DOMAIN nodes THEN {}
    ELSE LET node == nodes[id] IN
         {[from |-> id, via |-> "nested", at |-> i, id |-> node.nestedNodes[i].id,
           name |-> node.nestedNodes[i].name] : i \in 1..Len(node.nestedNodes)}
         \cup (IF node.which = "Struct"
               THEN {[from |-> id, via |-> "group", at |-> j, id |-> node.fields[j].typeId,
                      name |-> UpperOf(Head(node.fields[j].name))
                               \o Tail(node.fields[j].name)] :
                        j \in {x \in 1..Len(node.fields) : node.fields[x].which = "Group"}}
               ELSE {})
         \cup (IF node.which = "Interface"
               THEN UNION {
                       (IF node.methods[k].paramStructType \in DOMAIN nodes
                           /\ nodes[node.methods[k].paramStructType].scopeId # 0
                        THEN {}
                        ELSE {[from |-> id, via |-> "params", at |-> k,
                               id |-> node.methods[k].paramStructType,
                               name |-> UpperOf(Head(node.methods[k].name))
                                        \o Tail(node.methods[k].name) \o "Params"]})
                       \cup
                       (IF node.methods[k].resultStructType \in DOMAIN nodes
                           /\ nodes[node.methods[k].resultStructType].scopeId # 0
                        THEN {}
                        ELSE {[from |-> id, via |-> "results", at |-> k,
                               id |-> node.methods[k].resultStructType,
                               name |-> UpperOf(Head(node.methods[k].name))
                                        \o Tail(node.methods[k].name) \o "Results"]}) :
                       k \in 1..Len(node.methods)}
               ELSE {})

RECURSIVE ReachableVia(_, _)
\* the ids reached from the ids `seen` along those edges
ReachableVia(nodes, seen) ==
    LET more == seen \cup {e.id : e \in UNION {EdgesOf(nodes, id) : id \in seen}} IN
    IF more = seen THEN seen ELSE ReachableVia(nodes, more)

\* the graph of the file is a forest with every node in the node index: each
\* node reached from the root is in node_map and is the end of one edge, the
\* root of none
ForestOfPresentNodes(nodes, root) ==
    LET reached == ReachableVia(nodes, {root})
        edges == UNION {EdgesOf(nodes, id) : id \in reached}
    IN  /\ reached \subseteq DOMAIN nodes
        /\ \A id \in reached :
              Cardinality({e \in edges : e.id = id}) = IF id = root THEN 0 ELSE 1

RECURSIVE ModulesBelow(_, _, _)
\* the Struct, Enum and Interface nodes below node `id`, each with the path of
\* module names from the top of the file to its module
ModulesBelow(nodes, id, path) ==
    UNION {(IF nodes[e.id].which \in {"Struct", "Enum", "Interface"}
            THEN {[id |-> e.id, path |-> Append(path, e.name)]}
            ELSE {})
           \cup ModulesBelow(nodes, e.id, Append(path, e.name)) : e \in EdgesOf(nodes, id)}

\* the positions at which the lines of a text start
LineStarts(text) ==
    {1} \cup {i + 1 : i \in {j \in 1..(Len(text) - 1) : SubSeq(text, j, j) = "\n"}}

RECURSIVE SpacesAt(_, _)
\* the number of spaces from position p on
SpacesAt(text, p) ==
    IF p <= Len(text) /\ SubSeq(text, p, p) = " " THEN 1 + SpacesAt(text, p + 1) ELSE 0

\* the line starting at p is empty but for spaces
BlankAt(text, p) ==
    LET q == p + SpacesAt(text, p) IN q > Len(text) \/ SubSeq(text, q, q) = "\n"

\* the line starting at p opens a module
ModuleAt(text, p) ==
    LET q == p + SpacesAt(text, p) IN
    q + 7 <= Len(text) /\ SubSeq(text, q, q + 7) = "pub mod "

\* the name in `pub mod <name> {` on the line starting at p
ModuleNameAt(text, p) ==
    LET q == p + SpacesAt(text, p) + 8 IN
    SubSeq(text, q, FindFrom(text, " {\n", q) - 1)

\* the start of the line that opens the block the line at p is in: the last
\* line before it that is indented less, 0 when there is none
OpenerOf(text, starts, p) ==
    LET before == {q \in starts : q < p /\ ~BlankAt(text, q)
                                    /\ SpacesAt(text, q) < SpacesAt(text, p)}
    IN  IF before = {} THEN 0 ELSE CHOOSE q \in before : \A r \in before : r <= q

RECURSIVE ModulePathAt(_, _, _)
\* the names of the modules around the module opened at p, and its own; the
\* name of a block that is not a module one level out is left empty
ModulePathAt(text, starts, p) ==
    LET q == OpenerOf(text, starts, p) IN
    IF SpacesAt(text, p) = 0 THEN << ModuleNameAt(text, p) >>
    ELSE IF q # 0 /\ ModuleAt(text, q) /\ SpacesAt(text, q) + 2 = SpacesAt(text, p)
    THEN Append(ModulePathAt(text, starts, q), ModuleNameAt(text, p))
    ELSE << "", ModuleNameAt(text, p) >>

\* the modules of a text: the path of each, by the position of its first line
ModulesOf(text) ==
    LET starts == LineStarts(text) IN
    [p \in {q \in starts : ModuleAt(text, q)} |-> ModulePathAt(text, starts, p)]

\* every node of `expected` has one module at its path in `modules`
OneModuleEach(expected, modules) ==
    \A m \in expected :
        Cardinality({p \in DOMAIN modules : modules[p] = m.path}) = 1

\* C30: when the text of a requested file is generated and the file's node
\* graph is a forest of nodes that are all in node_map, every Struct, Enum and
\* Interface node reached from the file through nestedNodes, group fields and
\* the scopeId == 0 parameter and result structs of methods has exactly one
\* module in the text, inside the module of the node it is reached through
C30_OneModulePerReachableNode ==
    (d_pc = "write" /\ ForestOfPresentNodes(main_node_map, CurrentFile.id)) =>
        OneModuleEach(ModulesBelow(main_node_map, CurrentFile.id, << >>), ModulesOf(d_text))

\* the text of the file test is generated with the enum Color and the group
\* widgetCount, in which the group inner is: the modules of Foo, Top and the five nodes below them
C30_Witness ==
    /\ d_pc = "write"
    /\ CurrentFile.id = FileId
    /\ ForestOfPresentNodes(main_node_map, FileId)
    /\ {m.path : m \in ModulesBelow(main_node_map, FileId, << >>)}
          = {<< "Foo" >>, << "Foo", "Color" >>, << "Foo", "WidgetCount" >>,
             << "Foo", "WidgetCount", "Inner" >>, << "Top" >>, << "Top", "PingParams" >>,
             << "Top", "PingResults" >>}
    /\ OneModuleEach(ModulesBelow(main_node_map, FileId, << >>), ModulesOf(d_text))


=============================================================================
